---- MODULE Spec2Model ----
(***************************************************************************)
(* DNSSEC validation of dns_debugger: DigAdapter.validate_dnssec and       *)
(* DogAdapter.validate_dnssec, with the helpers they call (query,          *)
(* query_dnskey_with_keytag, _parse_ds_records) and the dnssec_info        *)
(* models.  A call is modelled step by step: every subprocess the code     *)
(* runs is one point where the environment chooses the outcome.            *)
(*                                                                         *)
(* Strings that the code slices (domain and zone names) are sequences of   *)
(* one-character strings; Optional values are sequences of length 0 or 1.  *)
(***************************************************************************)
EXTENDS Integers, Sequences, FiniteSets, TLC

VARIABLES
  call,   \* the validate_dnssec call in progress: its locals and its history
  world,  \* SpecPair: the answers the target's own lookups get in both calls
  first   \* SpecPair: what the first of the two calls returned

vars == <<call, world, first>>

-----------------------------------------------------------------------------
(* Bounds of the model *)

MaxDomainLen == 3
MaxKeys == 2
MaxRecords == 1

Chars == {"a", "."}

Domains == UNION {[1..n -> Chars] : n \in 0..MaxDomainLen}

Adapters == {"dig", "dog"}

None == <<>>
Some(x) == <<x>>

\* The sequences of at most n distinct elements of S (an RRset holds no
\* record twice).
\* The answers drawn for a lookup: the selections of at most n records of
\* pool, in the order of pool.
RECURSIVE SubSeqs(_)
SubSeqs(pool) ==
  IF pool = <<>> THEN {<<>>}
  ELSE LET rest == SubSeqs(Tail(pool))
       IN rest \cup {<<Head(pool)>> \o t : t \in rest}

SeqsUpTo(pool, n) == {t \in SubSeqs(pool) : Len(t) <= n}

-----------------------------------------------------------------------------
(* Python string helpers used by validate_dnssec *)

RECURSIVE rstrip(_, _)
rstrip(s, ch) ==
  IF s # <<>> /\ s[Len(s)] = ch THEN rstrip(SubSeq(s, 1, Len(s) - 1), ch) ELSE s

RECURSIVE split(_, _)
split(s, sep) ==
  IF \A k \in 1..Len(s) : s[k] # sep
  THEN <<s>>
  ELSE LET k == CHOOSE k \in 1..Len(s) : s[k] = sep /\ \A j \in 1..(k - 1) : s[j] # sep
       IN <<SubSeq(s, 1, k - 1)>> \o split(SubSeq(s, k + 1, Len(s)), sep)

RECURSIVE join(_, _)
join(sep, parts) ==
  IF parts = <<>> THEN <<>>
  ELSE IF Len(parts) = 1 THEN parts[1]
  ELSE parts[1] \o <<sep>> \o join(sep, Tail(parts))

-----------------------------------------------------------------------------
(* dnssec_info.py *)

KSK_FLAGS == 257
ZSK_FLAGS == 256

\* Mutant: a key signing key recognised by its SEP bit alone.
is_key_signing_key_sep_bit(key) == key.flags % 2 = 1

is_key_signing_key(key) == key.flags = KSK_FLAGS
is_zone_signing_key(key) == key.flags = ZSK_FLAGS

RECURSIVE ksk_count_of(_)
ksk_count_of(keys) ==
  IF keys = <<>> THEN 0
  ELSE (IF is_key_signing_key(Head(keys)) THEN 1 ELSE 0) + ksk_count_of(Tail(keys))

RECURSIVE zsk_count_of(_)
zsk_count_of(keys) ==
  IF keys = <<>> THEN 0
  ELSE (IF is_zone_signing_key(Head(keys)) THEN 1 ELSE 0) + zsk_count_of(Tail(keys))

ksk_count(chain) == ksk_count_of(chain.dnskey_records)
zsk_count(chain) == zsk_count_of(chain.dnskey_records)

is_signed(chain) == chain.has_dnskey_record /\ chain.has_rrsig_record
has_chain_of_trust(chain) == chain.has_ds_record /\ is_signed(chain)

ZoneData(zone_name, dnskey_records, ds_records, rrsig_records) ==
  [zone_name |-> zone_name, dnskey_records |-> dnskey_records,
   ds_records |-> ds_records, rrsig_records |-> rrsig_records]

DNSSECChain(domain, has_ds, has_dnskey, has_rrsig, ds, dnskey, rrsig, parents) ==
  [domain |-> domain, has_ds_record |-> has_ds, has_dnskey_record |-> has_dnskey,
   has_rrsig_record |-> has_rrsig, ds_records |-> ds, dnskey_records |-> dnskey,
   rrsig_records |-> rrsig, parent_zones |-> parents]

\* RRSIGRecord, by the two datetime fields its properties read.  A datetime
\* is a whole number of hours.
RRSIGRecord(signature_expiration, signature_inception) ==
  [signature_expiration |-> signature_expiration,
   signature_inception |-> signature_inception]

\* timedelta.days: the floor of the difference in days of 24 hours
timedelta_days(delta) == delta \div 24

\* now is the value datetime.now() returns to the property
is_expired(sig, now) == now > sig.signature_expiration
is_not_yet_valid(sig, now) == now < sig.signature_inception

\* days_until_expiry reads the clock twice: now1 inside is_expired, now2 in
\* the subtraction.
days_until_expiry(sig, now1, now2) ==
  IF is_expired(sig, now1) THEN 0
  ELSE timedelta_days(sig.signature_expiration - now2)

DNSSECStatus == {"SECURE", "INSECURE", "BOGUS", "INDETERMINATE"}

is_bogus(validation) == validation.status = "BOGUS"
is_secure(validation) == validation.status = "SECURE"
is_insecure(validation) == validation.status = "INSECURE"

DNSSECValidation(domain, status, chain, error_message, warnings) ==
  [domain |-> domain, status |-> status, chain |-> chain,
   error_message |-> error_message, warnings |-> warnings]

-----------------------------------------------------------------------------
(* What the tools return.  A field of a record's RDATA text is a token that *)
(* int() either parses or rejects.                                          *)

Num(n) == [num |-> TRUE, n |-> n]
Word == [num |-> FALSE, n |-> 0]

\* DNSRecord values: RDATA text split on whitespace, or (dog JSON only) a
\* "data" member that is not a string.
GoodDS == [isstr |-> TRUE, fields |-> <<Num(1), Num(8), Num(2), Word>>]
ShortDS == [isstr |-> TRUE, fields |-> <<Num(1), Num(8), Num(2)>>]
NonStrDS == [isstr |-> FALSE, fields |-> <<>>]

DsValues(adapter) == <<GoodDS, ShortDS>> \o (IF adapter = "dog" THEN <<NonStrDS>> ELSE <<>>)

DNSKEYRecord(flags, protocol, algorithm, key_tag) ==
  [flags |-> flags, protocol |-> protocol, algorithm |-> algorithm, key_tag |-> key_tag]

Keys ==
  <<DNSKEYRecord(KSK_FLAGS, 3, "RSASHA256", 1), DNSKEYRecord(ZSK_FLAGS, 3, "RSASHA256", 2),
    DNSKEYRecord(0, 3, "RSASHA256", 3)>>

\* subprocess.run(..., timeout=10, check=True): the tool answers, exits
\* non-zero (CalledProcessError), times out (TimeoutExpired) or is not
\* installed (FileNotFoundError); the last two take the same except clause.
FailKinds == {"nonzero", "raised"}

DsOutcomesOver(lists) ==
  [kind : {"ok"}, records : lists] \cup [kind : FailKinds, records : {<<>>}]

DnskeyOutcomesOver(lists) ==
  [kind : {"ok"}, keys : lists] \cup [kind : FailKinds, keys : {<<>>}]

TargetDsOutcomes(adapter) == DsOutcomesOver(SeqsUpTo(DsValues(adapter), MaxRecords))
TargetDnskeyOutcomes == DnskeyOutcomesOver(SeqsUpTo(Keys, MaxKeys))

ParentDsOutcomes(adapter) == DsOutcomesOver(SeqsUpTo(DsValues(adapter), 1))
ParentDnskeyOutcomes == DnskeyOutcomesOver(SeqsUpTo(SubSeq(Keys, 1, 1), 1))

\* The signed query of the target: whether the tool ran, and whether its
\* answer showed an RRSIG.
RrsigOutcomes == [kind : {"ok"}, rrsig : BOOLEAN] \cup [kind : FailKinds, rrsig : {FALSE}]

-----------------------------------------------------------------------------
(* Helpers of the adapters.  A helper that can raise returns                *)
(* [exc |-> name of the exception or "None", val |-> its value].            *)

Returned(v) == [exc |-> "None", val |-> v]
Raised(e) == [exc |-> e, val |-> <<>>]

DNSResponse(records, error) == [records |-> records, error |-> error]

is_success(response) == response.error = None
record_count(response) == Len(response.records)

\* DNSQuery.__post_init__ raises before query() enters its try block; inside
\* it every failure of the tool becomes a response with error set.
query(domain, out) ==
  IF domain = <<>> THEN Raised("ValueError")
  ELSE IF out.kind = "ok" THEN Returned(DNSResponse(out.records, None))
  ELSE Returned(DNSResponse(<<>>, Some("Query failed")))

\* The whole body is inside try/except Exception: a failed tool gives ([], "").
query_dnskey_with_keytag(out) == IF out.kind = "ok" THEN out.keys ELSE <<>>

\* The executable (cmd[0]) of the command an adapter runs for a query of
\* the given type: DigAdapter runs dig for every one; DogAdapter runs dog in
\* query() and for the SOA query, and dig in query_dnskey_with_keytag.
executable(adapter, query_type) ==
  IF adapter = "dig" THEN "dig"
  ELSE IF query_type = "DNSKEY" THEN "dig"
  ELSE "dog"

algorithm_map ==
  (1 :> "RSAMD5") @@ (2 :> "DH") @@ (3 :> "DSA") @@ (5 :> "RSASHA1")
  @@ (6 :> "DSA_NSEC3_SHA1") @@ (7 :> "RSASHA1_NSEC3_SHA1") @@ (8 :> "RSASHA256")
  @@ (10 :> "RSASHA512") @@ (12 :> "ECC_GOST") @@ (13 :> "ECDSAP256SHA256")
  @@ (14 :> "ECDSAP384SHA384") @@ (15 :> "ED25519") @@ (16 :> "ED448")

AlgorithmCodes == DOMAIN algorithm_map

\* Mutant: a code outside the table read as the first entry of the table.
_parse_algorithm_first_entry(alg_num) ==
  IF alg_num \in AlgorithmCodes THEN algorithm_map[alg_num] ELSE "RSAMD5"

\* algorithm_map.get(alg_num, DNSSECAlgorithm.UNKNOWN)
_parse_algorithm(alg_num) ==
  IF alg_num \in AlgorithmCodes THEN algorithm_map[alg_num] ELSE "UNKNOWN"

digest_map == (1 :> "SHA1") @@ (2 :> "SHA256") @@ (3 :> "GOST") @@ (4 :> "SHA384")

DigestCodes == DOMAIN digest_map

\* digest_map.get(digest_num, DigestType.UNKNOWN)
_parse_digest_type(digest_num) ==
  IF digest_num \in DigestCodes THEN digest_map[digest_num] ELSE "UNKNOWN"

\* value.split(None, 3): at most four parts, the fourth taking the rest.
split_none_3(fields) ==
  IF Len(fields) > 4 THEN SubSeq(fields, 1, 3) \o <<Word>> ELSE fields

DSRecord(key_tag, algorithm, digest_type) ==
  [key_tag |-> key_tag, algorithm |-> algorithm, digest_type |-> digest_type]

\* One record of the loop: the DSRecord appended, nothing (skipped), or the
\* AttributeError of calling split on a value that is not a string, which
\* except (ValueError, IndexError) does not catch.
parse_ds_record(record) ==
  IF ~record.isstr THEN Raised("AttributeError")
  ELSE LET parts == split_none_3(record.fields)
       IN IF Len(parts) = 4 /\ parts[1].num /\ parts[2].num /\ parts[3].num
          THEN Returned(<<DSRecord(parts[1].n, _parse_algorithm(parts[2].n),
                                   _parse_digest_type(parts[3].n))>>)
          ELSE Returned(<<>>)

RECURSIVE parse_ds_list(_)
parse_ds_list(records) ==
  IF records = <<>> THEN Returned(<<>>)
  ELSE LET head == parse_ds_record(Head(records))
           rest == parse_ds_list(Tail(records))
       IN IF head.exc # "None" THEN head
          ELSE IF rest.exc # "None" THEN rest
          ELSE Returned(head.val \o rest.val)

_parse_ds_records(response) == parse_ds_list(response.records)

-----------------------------------------------------------------------------
(* The scan of dig's "+multi" output in query_dnskey_with_keytag.  A line   *)
(* of the output is a record: kind "entry" is a line holding DNSKEY that is *)
(* neither a comment nor an RRSIG line, fields its ttl, flags, protocol and *)
(* algorithm columns (empty when the line has fewer than seven columns) and *)
(* paren whether it holds "("; kind "close" is a line holding ")" with the  *)
(* key id of its comment; kind "text" is any other line (key material, a    *)
(* comment, a blank line).                                                  *)

MaxLines == 4

Line(kind, fields, paren, key_id) ==
  [kind |-> kind, fields |-> fields, paren |-> paren, key_id |-> key_id]

EntryLine(ttl, flags, protocol, algorithm, paren) ==
  Line("entry", <<ttl, flags, protocol, algorithm>>, paren, None)

ShortEntryLine == Line("entry", <<>>, FALSE, None)
TextLine == Line("text", <<>>, FALSE, None)
CloseLine(key_id) == Line("close", <<>>, FALSE, key_id)

\* An algorithm column with a code that algorithm_map does not hold.
UnassignedCode == 4

GoodEntryLines ==
  {EntryLine(Num(60), Num(KSK_FLAGS), Num(3), Num(8), TRUE),
   EntryLine(Num(60), Num(ZSK_FLAGS), Num(3), Num(UnassignedCode), TRUE),
   EntryLine(Num(60), Num(ZSK_FLAGS), Num(3), Num(13), FALSE)}

BadEntryLines ==
  {EntryLine(Word, Num(KSK_FLAGS), Num(3), Num(8), TRUE),
   EntryLine(Num(60), Word, Num(3), Num(8), TRUE),
   EntryLine(Num(60), Num(KSK_FLAGS), Word, Num(8), TRUE),
   EntryLine(Num(60), Num(KSK_FLAGS), Num(3), Word, TRUE)}

OutputLines ==
  GoodEntryLines \cup BadEntryLines
    \cup {ShortEntryLine, TextLine, CloseLine(None), CloseLine(Some(7))}

DigOutputs == UNION {[1..n -> OutputLines] : n \in 0..MaxLines}

\* "DNSKEY" in line and not line.startswith(";") and "RRSIG" not in line,
\* then len(parts) >= 7
is_dnskey_line(line) == line.kind = "entry" /\ Len(line.fields) = 4

\* int(parts[1]), int(parts[4]), int(parts[5]), int(parts[6])
fields_are_int(line) == \A k \in 1..Len(line.fields) : line.fields[k].num

\* while i < len(lines) and ")" not in lines[i]: i += 1
RECURSIVE find_close(_, _)
find_close(lines, i) ==
  IF i <= Len(lines) /\ lines[i].kind # "close" THEN find_close(lines, i + 1) ELSE i

\* The record appended for an entry line; key_tag is the local of that name
\* (None, or the integer it holds).
make_dnskey(line, key_tag) ==
  LET flags == line.fields[2].n
      protocol == line.fields[3].n
      algorithm == line.fields[4].n
  IN DNSKEYRecord(flags, protocol, _parse_algorithm(algorithm),
                  IF key_tag = None THEN (flags + protocol + algorithm) % 65536
                  ELSE key_tag[1])

\* The while loop over the lines from index i on.  bound says whether the
\* local key_tag has been assigned in this call, and key_tag is then the
\* integer left in it by the entry before.
RECURSIVE scan_lines(_, _, _, _, _)
scan_lines(lines, i, records, bound, key_tag) ==
  IF i > Len(lines) THEN Returned(records)
  ELSE IF ~is_dnskey_line(lines[i]) THEN scan_lines(lines, i + 1, records, bound, key_tag)
  ELSE IF ~fields_are_int(lines[i])
       THEN Raised("ValueError")
  ELSE IF lines[i].paren
       THEN LET j == find_close(lines, i + 1)
            IN IF j <= Len(lines)
               THEN LET rec == make_dnskey(lines[i], lines[j].key_id)
                    IN scan_lines(lines, j + 1, Append(records, rec), TRUE, rec.key_tag)
               ELSE IF ~bound THEN Raised("UnboundLocalError")
               ELSE Returned(Append(records, make_dnskey(lines[i], Some(key_tag))))
  ELSE LET rec == make_dnskey(lines[i], None)
       IN scan_lines(lines, i + 1, Append(records, rec), TRUE, rec.key_tag)

\* The body of query_dnskey_with_keytag on the output of a dig that ran:
\* except Exception: return [], ""
parse_dnskey_output(lines) ==
  LET r == scan_lines(lines, 1, <<>>, FALSE, 0)
  IN IF r.exc = "None" THEN r.val ELSE <<>>

-----------------------------------------------------------------------------
(* The same scanner one loop iteration at a time.  s holds its locals: i   *)
(* (counted from 1), records, whether key_tag is bound and its value, and  *)
(* entry, the index of the entry line whose key the inner loop collects.   *)

scan_begin(lines) ==
  [pc |-> "scan_outer", lines |-> lines, i |-> 1, records |-> <<>>, bound |-> FALSE,
   key_tag |-> 0, entry |-> 0, result |-> <<>>]

\* except Exception: return [], ""
scan_except(s) == [s EXCEPT !.pc = "scanned", !.result = <<>>]

\* One test of `while i < len(lines)` and the body up to the inner loop, or
\* to the `i += 1` that ends it
scan_outer(s) ==
  IF s.i > Len(s.lines) THEN [s EXCEPT !.pc = "scanned", !.result = s.records]
  ELSE IF ~is_dnskey_line(s.lines[s.i]) THEN [s EXCEPT !.i = @ + 1]
  ELSE IF ~fields_are_int(s.lines[s.i]) THEN scan_except(s)
  ELSE IF s.lines[s.i].paren
       THEN [s EXCEPT !.pc = "scan_inner", !.entry = s.i, !.i = @ + 1]
  ELSE LET rec == make_dnskey(s.lines[s.i], None)
       IN [s EXCEPT !.records = Append(@, rec), !.bound = TRUE,
                    !.key_tag = rec.key_tag, !.i = @ + 1]

\* Mutant: an inner loop that does not advance over a line of key material.
scan_inner_stays(s) ==
  IF s.i <= Len(s.lines) /\ s.lines[s.i].kind # "close" THEN s
  ELSE IF s.i <= Len(s.lines)
       THEN LET rec == make_dnskey(s.lines[s.entry], s.lines[s.i].key_id)
            IN [s EXCEPT !.pc = "scan_outer", !.records = Append(@, rec), !.bound = TRUE,
                         !.key_tag = rec.key_tag, !.i = @ + 1]
  ELSE IF ~s.bound THEN scan_except(s)
  ELSE [s EXCEPT !.pc = "scan_outer",
                 !.records = Append(@, make_dnskey(s.lines[s.entry], Some(s.key_tag))),
                 !.i = @ + 1]

\* One test of `while i < len(lines) and ")" not in lines[i]`: its body, or
\* on leaving the loop the rest of the outer body with its `i += 1`
scan_inner(s) ==
  IF s.i <= Len(s.lines) /\ s.lines[s.i].kind # "close" THEN [s EXCEPT !.i = @ + 1]
  ELSE IF s.i <= Len(s.lines)
       THEN LET rec == make_dnskey(s.lines[s.entry], s.lines[s.i].key_id)
            IN [s EXCEPT !.pc = "scan_outer", !.records = Append(@, rec), !.bound = TRUE,
                         !.key_tag = rec.key_tag, !.i = @ + 1]
  ELSE IF ~s.bound THEN scan_except(s)
  ELSE [s EXCEPT !.pc = "scan_outer",
                 !.records = Append(@, make_dnskey(s.lines[s.entry], Some(s.key_tag))),
                 !.i = @ + 1]

-----------------------------------------------------------------------------
(* validate_dnssec, one step per group of subprocess calls.  The record c   *)
(* holds the locals of the call, and its history: queries, the (type, name) *)
(* of every query handed to a tool; lookups, how each of the target's own   *)
(* lookups ended ("none" before it ran, "records", "empty" or "failed");    *)
(* caught, the try blocks of validate_dnssec whose except clause took an    *)
(* exception.  pc = "raised" is an exception leaving validate_dnssec.       *)

Root == <<".">>

NoResponse == DNSResponse(<<>>, None)

Idle ==
  [pc |-> "idle", adapter |-> "dig", domain |-> <<>>, ds_response |-> NoResponse,
   dnskey_records |-> <<>>, has_ds |-> FALSE, has_dnskey |-> FALSE, ds_records |-> <<>>,
   has_rrsig |-> FALSE, parts |-> <<>>, i |-> 0, parent_zones |-> <<>>,
   result |-> None, queries |-> <<>>, caught |-> {},
   lookups |-> [ds |-> "none", dnskey |-> "none", rrsig |-> "none"]]

begin(adapter, domain) ==
  [Idle EXCEPT !.pc = "target_ds", !.adapter = adapter, !.domain = domain]

str(e) ==
  IF e = "ValueError" THEN "Domain cannot be empty"
  ELSE "'dict' object has no attribute 'split'"

error_message(e) == "DNSSEC validation failed: " \o str(e)

\* The exceptions the model raises are all subclasses of Exception.
Exceptions == {"ValueError", "AttributeError", "CalledProcessError", "TimeoutExpired"}

\* Mutant: the outer handler as narrow as the parsers' except clause.
outer_catches_narrow(e) == e \in {"ValueError", "IndexError"}

\* except Exception as e (the handler around the whole body)
outer_catches(e) == e \in Exceptions

\* Mutant: the error result built without its error_message.
outer_result_no_message(c, e) ==
  DNSSECValidation(c.domain, "INDETERMINATE", None, None, <<>>)

outer_result(c, e) ==
  DNSSECValidation(c.domain, "INDETERMINATE", None, Some(error_message(e)), <<>>)

outer_except(c, e) ==
  IF outer_catches(e)
  THEN [c EXCEPT !.pc = "done", !.result = Some(outer_result(c, e)),
                 !.caught = @ \cup {"outer"}]
  ELSE [c EXCEPT !.pc = "raised"]

ended(ok, any) == IF ~ok THEN "failed" ELSE IF any THEN "records" ELSE "empty"

\* ds_response = self.query(domain, RecordType.DS)
validate_target_ds(c, out) ==
  LET r == query(c.domain, out)
  IN IF r.exc # "None" THEN outer_except(c, r.exc)
     ELSE [c EXCEPT !.pc = "target_dnskey", !.ds_response = r.val,
                    !.queries = Append(@, <<"DS", c.domain>>),
                    !.lookups.ds = ended(out.kind = "ok", out.records # <<>>)]

\* Mutant: has_ds taken from the parsed DS records.
compute_has_ds_parsed(ds_response) ==
  is_success(ds_response) /\ _parse_ds_records(ds_response).val # <<>>

compute_has_ds(ds_response) == is_success(ds_response) /\ record_count(ds_response) > 0

\* dnskey_records, dnskey_raw = self.query_dnskey_with_keytag(domain), then
\* has_ds, has_dnskey and ds_records = self._parse_ds_records(ds_response)
validate_target_dnskey(c, out) ==
  LET keys == query_dnskey_with_keytag(out)
      parsed == _parse_ds_records(c.ds_response)
      c1 == [c EXCEPT !.dnskey_records = keys,
                      !.has_ds = compute_has_ds(c.ds_response),
                      !.has_dnskey = Len(keys) > 0,
                      !.queries = Append(@, <<"DNSKEY", c.domain>>),
                      !.lookups.dnskey = ended(out.kind = "ok", out.keys # <<>>)]
  IN IF parsed.exc # "None" THEN outer_except(c1, parsed.exc)
     ELSE [c1 EXCEPT !.pc = "rrsig", !.ds_records = parsed.val]

\* The inner try around the signed query: any failure leaves has_rrsig False.
validate_rrsig(c, out) ==
  [c EXCEPT !.pc = "root",
            !.has_rrsig = (out.kind = "ok" /\ out.rrsig),
            !.caught = IF out.kind = "ok" THEN @ ELSE @ \cup {"rrsig"},
            !.lookups.rrsig = ended(out.kind = "ok", out.rrsig),
            !.queries = Append(@, <<IF c.adapter = "dig" THEN "NS" ELSE "SOA", c.domain>>)]

\* One level of the walk: the zone's DNSKEY set and the DS set of its child.
\* An exception inside the level's try block is passed over and the level
\* is not appended.
\* Mutant: a level asking for the child's DS set before the zone's DNSKEY set.
walk_level_ds_first(c, zone_name, child, outk, outd) ==
  LET keys == query_dnskey_with_keytag(outk)
      r == query(child, outd)
      parsed == IF r.exc = "None" THEN _parse_ds_records(r.val) ELSE r
      q1 == IF r.exc = "None" THEN Append(c.queries, <<"DS", child>>) ELSE c.queries
      q2 == Append(q1, <<"DNSKEY", zone_name>>)
  IN [c EXCEPT !.queries = q2,
               !.caught = IF parsed.exc = "None" THEN @ ELSE @ \cup {"level"},
               !.parent_zones = IF parsed.exc = "None"
                                THEN Append(@, ZoneData(zone_name, keys, parsed.val, <<>>))
                                ELSE @]

walk_level(c, zone_name, child, outk, outd) ==
  LET keys == query_dnskey_with_keytag(outk)
      r == query(child, outd)
      parsed == IF r.exc = "None" THEN _parse_ds_records(r.val) ELSE r
      q1 == Append(c.queries, <<"DNSKEY", zone_name>>)
      q2 == IF r.exc = "None" THEN Append(q1, <<"DS", child>>) ELSE q1
  IN [c EXCEPT !.queries = q2,
               !.caught = IF parsed.exc = "None" THEN @ ELSE @ \cup {"level"},
               !.parent_zones = IF parsed.exc = "None"
                                THEN Append(@, ZoneData(zone_name, keys, parsed.val, <<>>))
                                ELSE @]

after_level(c, next_i) ==
  [c EXCEPT !.i = next_i, !.pc = IF next_i >= 1 THEN "levels" ELSE "build"]

\* parts = domain.rstrip(".").split("."); the root zone with the DS of the TLD
validate_root(c, outk, outd) ==
  LET parts == split(rstrip(c.domain, "."), ".")
      c1 == walk_level([c EXCEPT !.parts = parts], Root, parts[Len(parts)], outk, outd)
  IN after_level(c1, Len(parts) - 1)

\* Mutant: the walk taken from the target's parent up to the TLD.
current_zone_leaf_first(parts, i) ==
  join(".", SubSeq(parts, Len(parts) - i + 1, Len(parts)))

current_zone(parts, i) == join(".", SubSeq(parts, i + 1, Len(parts)))

\* Mutant: the DS set asked for the zone itself and not for its child.
child_zone_same(parts, i) == current_zone(parts, i)

child_zone(parts, i) == join(".", SubSeq(parts, i, Len(parts)))

\* for i in range(len(parts) - 1, 0, -1): the body for the current i
validate_level(c, outk, outd) ==
  LET c1 == walk_level(c, current_zone(c.parts, c.i), child_zone(c.parts, c.i), outk, outd)
  IN after_level(c1, c.i - 1)

\* Mutant: the DS test made before the DNSKEY test.
determine_status_ds_first(has_dnskey, has_ds) ==
  IF has_ds THEN (IF has_dnskey THEN "SECURE" ELSE "INDETERMINATE")
  ELSE IF ~has_dnskey THEN "INSECURE"
  ELSE "INDETERMINATE"

\* Mutant: a DNSKEY set that the parent does not endorse reported as BOGUS.
determine_status_bogus_without_ds(has_dnskey, has_ds) ==
  IF ~has_dnskey THEN "INSECURE"
  ELSE IF has_dnskey /\ has_ds THEN "SECURE"
  ELSE "BOGUS"

determine_status(has_dnskey, has_ds) ==
  IF ~has_dnskey THEN "INSECURE"
  ELSE IF has_dnskey /\ has_ds THEN "SECURE"
  ELSE IF has_dnskey /\ ~has_ds THEN "INDETERMINATE"
  ELSE "INDETERMINATE"

WarnNoDS == "Domain has DNSKEY but no DS record in parent zone"
WarnNoKSK == "No Key Signing Key (KSK) found"
WarnNoZSK == "No Zone Signing Key (ZSK) found"

\* Mutant: the KSK and ZSK warnings given without the has_dnskey test.
make_warnings_unguarded(chain, has_dnskey, has_ds) ==
  (IF has_dnskey /\ ~has_ds THEN <<WarnNoDS>> ELSE <<>>)
  \o (IF ksk_count(chain) = 0 THEN <<WarnNoKSK>> ELSE <<>>)
  \o (IF zsk_count(chain) = 0 THEN <<WarnNoZSK>> ELSE <<>>)

make_warnings(chain, has_dnskey, has_ds) ==
  (IF has_dnskey /\ ~has_ds THEN <<WarnNoDS>> ELSE <<>>)
  \o (IF ksk_count(chain) = 0 /\ has_dnskey THEN <<WarnNoKSK>> ELSE <<>>)
  \o (IF zsk_count(chain) = 0 /\ has_dnskey THEN <<WarnNoZSK>> ELSE <<>>)

build_chain(c) ==
  DNSSECChain(c.domain, c.has_ds, c.has_dnskey, c.has_rrsig, c.ds_records,
              c.dnskey_records, <<>>, c.parent_zones)

\* Mutant: the DS of the target counted only when every walked level holds
\* a DS record too.
validate_build_needs_parent_ds(c) ==
  LET chain == build_chain(c)
      has_ds == c.has_ds /\ \A k \in 1..Len(c.parent_zones) : c.parent_zones[k].ds_records # <<>>
      status == determine_status(c.has_dnskey, has_ds)
      warnings == make_warnings(chain, c.has_dnskey, has_ds)
  IN [c EXCEPT !.pc = "done",
               !.result = Some(DNSSECValidation(c.domain, status, Some(chain), None, warnings))]

\* Mutant: the warnings of every call after the first put in reverse order.
validate_build_remembers_call(c) ==
  LET chain == build_chain(c)
      status == determine_status(c.has_dnskey, c.has_ds)
      w == make_warnings(chain, c.has_dnskey, c.has_ds)
      warnings == IF first = None THEN w ELSE [k \in 1..Len(w) |-> w[Len(w) + 1 - k]]
  IN [c EXCEPT !.pc = "done",
               !.result = Some(DNSSECValidation(c.domain, status, Some(chain), None, warnings))]

\* Mutant: parent_zones kept in one list that all running calls append to
\* (call is then the pair of running calls).
validate_build_shared_zones(c) ==
  LET chain == DNSSECChain(c.domain, c.has_ds, c.has_dnskey, c.has_rrsig, c.ds_records,
                           c.dnskey_records, <<>>,
                           call[1].parent_zones \o call[2].parent_zones)
      status == determine_status(c.has_dnskey, c.has_ds)
      warnings == make_warnings(chain, c.has_dnskey, c.has_ds)
  IN [c EXCEPT !.pc = "done",
               !.result = Some(DNSSECValidation(c.domain, status, Some(chain), None, warnings))]

\* chain, status, warnings and the returned DNSSECValidation
validate_build(c) ==
  LET chain == build_chain(c)
      status == determine_status(c.has_dnskey, c.has_ds)
      warnings == make_warnings(chain, c.has_dnskey, c.has_ds)
  IN [c EXCEPT !.pc = "done",
               !.result = Some(DNSSECValidation(c.domain, status, Some(chain), None, warnings))]

-----------------------------------------------------------------------------
(* DashboardFacade: the health of the DNSSEC component, and the overall    *)
(* health computed from the six components.                                *)

DNSSECHealthData(secure, bogus, has_dnskey, has_ds, ksks, zsks, warning_count, error) ==
  [is_secure |-> secure, is_bogus |-> bogus, has_dnskey |-> has_dnskey,
   has_ds |-> has_ds, ksk_count |-> ksks, zsk_count |-> zsks,
   warning_count |-> warning_count, error |-> error]

\* Mutant: the status of the result taken for is_bogus.
get_dnssec_health_bogus(c) ==
  IF c.pc = "raised"
  THEN DNSSECHealthData(FALSE, FALSE, FALSE, FALSE, 0, 0, 0, Some("error"))
  ELSE LET validation == c.result[1]
           has_chain == validation.chain # None
       IN DNSSECHealthData(
            is_secure(validation), ~is_secure(validation) /\ ~is_insecure(validation),
            IF has_chain THEN validation.chain[1].has_dnskey_record ELSE FALSE,
            IF has_chain THEN validation.chain[1].has_ds_record ELSE FALSE,
            IF has_chain THEN ksk_count(validation.chain[1]) ELSE 0,
            IF has_chain THEN zsk_count(validation.chain[1]) ELSE 0,
            Len(validation.warnings), None)

\* get_dnssec_health, from the point where validate_dnssec has ended (c):
\* the except branch when it raised, else the fields of the validation
\* with error=None.
get_dnssec_health(c) ==
  IF c.pc = "raised"
  THEN DNSSECHealthData(FALSE, FALSE, FALSE, FALSE, 0, 0, 0, Some("error"))
  ELSE LET validation == c.result[1]
           has_chain == validation.chain # None
       IN DNSSECHealthData(
            is_secure(validation), is_bogus(validation),
            IF has_chain THEN validation.chain[1].has_dnskey_record ELSE FALSE,
            IF has_chain THEN validation.chain[1].has_ds_record ELSE FALSE,
            IF has_chain THEN ksk_count(validation.chain[1]) ELSE 0,
            IF has_chain THEN zsk_count(validation.chain[1]) ELSE 0,
            Len(validation.warnings), None)

HTTPHealthData(error, success, is_redirect, status_code) ==
  [error |-> error, is_success |-> success, is_redirect |-> is_redirect,
   status_code |-> status_code]
CertHealthData(error, is_valid, chain_valid, days) ==
  [error |-> error, is_valid |-> is_valid, chain_valid |-> chain_valid,
   days_until_expiry |-> days]
DNSHealthData(has_error, a_count, aaaa_count) ==
  [has_error |-> has_error, a_count |-> a_count, aaaa_count |-> aaaa_count]
RegistryHealthData(error, expired, is_expiring_soon) ==
  [error |-> error, is_expired |-> expired, is_expiring_soon |-> is_expiring_soon]
EmailHealthData(error, has_mx, security_score) ==
  [error |-> error, has_mx |-> has_mx, security_score |-> security_score]

HTTPHealths ==
  { HTTPHealthData(None, TRUE, FALSE, Some(200)),
    HTTPHealthData(None, FALSE, TRUE, Some(301)),
    HTTPHealthData(None, FALSE, FALSE, Some(404)),
    HTTPHealthData(None, FALSE, FALSE, Some(500)),
    HTTPHealthData(Some("Connection refused"), FALSE, FALSE, None) }
CertHealths ==
  { CertHealthData(None, TRUE, TRUE, Some(90)),
    CertHealthData(None, TRUE, TRUE, Some(10)),
    CertHealthData(None, TRUE, FALSE, Some(90)),
    CertHealthData(Some("timed out"), FALSE, FALSE, None) }
DNSHealths ==
  { DNSHealthData(FALSE, 1, 0), DNSHealthData(FALSE, 0, 1),
    DNSHealthData(FALSE, 0, 0), DNSHealthData(TRUE, 0, 0) }
RegistryHealths ==
  { RegistryHealthData(None, FALSE, FALSE), RegistryHealthData(None, FALSE, TRUE),
    RegistryHealthData(None, TRUE, TRUE), RegistryHealthData(Some("not found"), FALSE, FALSE) }
EmailHealths ==
  { EmailHealthData(None, TRUE, 80), EmailHealthData(None, TRUE, 60),
    EmailHealthData(None, TRUE, 0), EmailHealthData(None, FALSE, 0),
    EmailHealthData(Some("timed out"), FALSE, 0) }

http_status_of(h) ==
  IF h.error # None THEN "fail"
  ELSE IF h.is_success THEN "pass"
  ELSE IF h.is_redirect THEN "warn"
  ELSE IF h.status_code # None /\ h.status_code[1] # 0 /\ h.status_code[1] < 500 THEN "warn"
  ELSE "fail"

cert_status_of(h) ==
  IF h.error = None /\ h.is_valid /\ h.chain_valid
  THEN IF h.days_until_expiry # None /\ h.days_until_expiry[1] > 30 THEN "pass" ELSE "warn"
  ELSE "fail"

dns_status_of(h) ==
  IF ~h.has_error /\ (h.a_count > 0 \/ h.aaaa_count > 0) THEN "pass" ELSE "fail"

registry_status_of(h) ==
  IF h.error # None THEN "fail"
  ELSE IF h.is_expired THEN "fail"
  ELSE IF h.is_expiring_soon THEN "warn"
  ELSE "pass"

dnssec_status_of(h) ==
  IF h.error # None THEN "warn"
  ELSE IF h.is_bogus THEN "fail"
  ELSE IF h.is_secure THEN "pass"
  ELSE IF h.has_dnskey \/ h.has_ds THEN "warn"
  ELSE "neutral"

email_status_of(h) ==
  IF h.error = None /\ h.has_mx
  THEN IF h.security_score >= 75 THEN "pass" ELSE "warn"
  ELSE "fail"

\* statuses.count(x)
count(statuses, x) == Cardinality({i \in DOMAIN statuses : statuses[i] = x})

get_overall_health(http, cert, dns, registry, dnssec, email) ==
  LET statuses == << http_status_of(http), cert_status_of(cert), dns_status_of(dns),
                     registry_status_of(registry), dnssec_status_of(dnssec),
                     email_status_of(email) >>
      fail_count == count(statuses, "fail")
      warn_count == count(statuses, "warn")
  IN [domain_status |-> IF fail_count > 0 THEN "critical"
                        ELSE IF warn_count > 0 THEN "warning" ELSE "healthy",
      total_issues |-> fail_count + warn_count,
      http_status |-> statuses[1], cert_status |-> statuses[2],
      dns_status |-> statuses[3], registry_status |-> statuses[4],
      dnssec_status |-> statuses[5], email_status |-> statuses[6]]

-----------------------------------------------------------------------------
(* One call of validate_dnssec at a time *)

NoWorld == [adapter |-> "dig", domain |-> <<>>]

Init == call = Idle /\ world = NoWorld /\ first = None

Call ==
  /\ call.pc = "idle"
  /\ \E adapter \in Adapters, domain \in Domains : call' = begin(adapter, domain)
  /\ UNCHANGED <<world, first>>

TargetDS ==
  /\ call.pc = "target_ds"
  /\ \E out \in TargetDsOutcomes(call.adapter) : call' = validate_target_ds(call, out)
  /\ UNCHANGED <<world, first>>

TargetDNSKEY ==
  /\ call.pc = "target_dnskey"
  /\ \E out \in TargetDnskeyOutcomes : call' = validate_target_dnskey(call, out)
  /\ UNCHANGED <<world, first>>

SignedQuery ==
  /\ call.pc = "rrsig"
  /\ \E out \in RrsigOutcomes : call' = validate_rrsig(call, out)
  /\ UNCHANGED <<world, first>>

RootZone ==
  /\ call.pc = "root"
  /\ \E outk \in ParentDnskeyOutcomes, outd \in ParentDsOutcomes(call.adapter) :
       call' = validate_root(call, outk, outd)
  /\ UNCHANGED <<world, first>>

ParentLevel ==
  /\ call.pc = "levels"
  /\ \E outk \in ParentDnskeyOutcomes, outd \in ParentDsOutcomes(call.adapter) :
       call' = validate_level(call, outk, outd)
  /\ UNCHANGED <<world, first>>

Build ==
  /\ call.pc = "build"
  /\ call' = validate_build(call)
  /\ UNCHANGED <<world, first>>

Return ==
  /\ call.pc \in {"done", "raised", "overall_health"}
  /\ call' = Idle
  /\ UNCHANGED <<world, first>>

\* get_dnssec_health after its call of validate_dnssec has ended: what is
\* left is the health data; status and error_message record what the
\* validation it was built from said.
DnssecHealth ==
  /\ call.pc \in {"done", "raised"}
  /\ call' = [pc |-> "dnssec_health", adapter |-> call.adapter,
              status |-> IF call.pc = "done" THEN call.result[1].status ELSE "raised",
              error_message |-> IF call.pc = "done" THEN call.result[1].error_message ELSE None,
              health |-> get_dnssec_health(call)]
  /\ UNCHANGED <<world, first>>

\* get_overall_health with the health of the other five components
OverallHealth ==
  /\ call.pc = "dnssec_health"
  /\ \E http \in HTTPHealths, cert \in CertHealths, dns \in DNSHealths,
        registry \in RegistryHealths, email \in EmailHealths :
       call' = [pc |-> "overall_health", adapter |-> call.adapter,
                status |-> call.status, error_message |-> call.error_message,
                health |-> call.health,
                overall |-> get_overall_health(http, cert, dns, registry, call.health, email)]
  /\ UNCHANGED <<world, first>>

Next ==
  \/ Call
  \/ TargetDS
  \/ TargetDNSKEY
  \/ SignedQuery
  \/ RootZone
  \/ ParentLevel
  \/ Build
  \/ Return
  \/ DnssecHealth
  \/ OverallHealth

Spec == Init /\ [][Next]_vars

-----------------------------------------------------------------------------
(* Two calls for the same domain, one after the other.  The target's own   *)
(* lookups get the same answers in both (world); the root and the parent   *)
(* levels get whatever the environment chooses, call by call.              *)

\* Of the two ways a tool run fails, which lead to the same response, the
\* worlds hold one.
Answers(outcomes) == {out \in outcomes : out.kind \in {"ok", "nonzero"}}

Worlds ==
  UNION {[adapter : {a}, domain : {d \in Domains : Len(d) < MaxDomainLen},
          ds : Answers(TargetDsOutcomes(a)), dnskey : Answers(TargetDnskeyOutcomes),
          rrsig : Answers(RrsigOutcomes)]
         : a \in Adapters}

RECURSIVE parent_record_count(_)
parent_record_count(zones) ==
  IF zones = <<>> THEN 0
  ELSE Len(Head(zones).dnskey_records) + Len(Head(zones).ds_records)
       + parent_record_count(Tail(zones))

\* What a caller reads as the verdict of a result.
Verdict(r) ==
  [status |-> r.status, warnings |-> r.warnings, is_error |-> r.error_message # None,
   flags |-> IF r.chain = None THEN None
             ELSE Some(<<r.chain[1].has_ds_record, r.chain[1].has_dnskey_record,
                         r.chain[1].has_rrsig_record>>)]

PairInit == call = Idle /\ world \in Worlds /\ first = None

PairCall ==
  /\ call.pc = "idle"
  /\ call' = begin(world.adapter, world.domain)
  /\ UNCHANGED <<world, first>>

PairTargetDS ==
  /\ call.pc = "target_ds"
  /\ call' = validate_target_ds(call, world.ds)
  /\ UNCHANGED <<world, first>>

PairTargetDNSKEY ==
  /\ call.pc = "target_dnskey"
  /\ call' = validate_target_dnskey(call, world.dnskey)
  /\ UNCHANGED <<world, first>>

PairSignedQuery ==
  /\ call.pc = "rrsig"
  /\ call' = validate_rrsig(call, world.rrsig)
  /\ UNCHANGED <<world, first>>

PairSecondCall ==
  /\ call.pc = "done"
  /\ first = None
  /\ first' = Some([verdict |-> Verdict(call.result[1]),
                    parents_empty |-> parent_record_count(call.parent_zones) = 0])
  /\ call' = Idle
  /\ UNCHANGED world

PairNext ==
  \/ PairCall
  \/ PairTargetDS
  \/ PairTargetDNSKEY
  \/ PairSignedQuery
  \/ RootZone
  \/ ParentLevel
  \/ Build
  \/ PairSecondCall

SpecPair == PairInit /\ [][PairNext]_vars

-----------------------------------------------------------------------------
(* DNSSECPanel._render_dnssec_chain_visual, the part that walks the parent  *)
(* zones of a chain: for every zone the check mark of each DNSKEY (a DS of  *)
(* the zone carries its key tag) and of each DS (a DNSKEY of the zone       *)
(* carries its key tag).                                                    *)

\* ZoneData.has_dnskey and ZoneData.has_ds, derived from the record lists
zone_has_dnskey(zone_data) == Len(zone_data.dnskey_records) > 0
zone_has_ds(zone_data) == Len(zone_data.ds_records) > 0

key_tags_of(records) == {records[k].key_tag : k \in 1..Len(records)}

\* Mutant: the DS key tags collected over every zone of the chain.
ds_key_tags_of_chain(chain, z) ==
  UNION {key_tags_of(chain.parent_zones[y].ds_records) : y \in 1..Len(chain.parent_zones)}

\* {ds.key_tag for ds in zone_data.ds_records} if zone_data.has_ds else set()
ds_key_tags(chain, z) ==
  IF zone_has_ds(chain.parent_zones[z]) THEN key_tags_of(chain.parent_zones[z].ds_records)
  ELSE {}

\* {key.key_tag for key in zone_data.dnskey_records} if zone_data.has_dnskey
\* else set()
dnskey_key_tags(chain, z) ==
  IF zone_has_dnskey(chain.parent_zones[z])
  THEN key_tags_of(chain.parent_zones[z].dnskey_records)
  ELSE {}

\* What is rendered for zone z: has_matching_ds of each DNSKEY shown and
\* has_matching_dnskey of each DS shown (nothing is shown of a list whose
\* has_ flag is false).
render_zone(chain, z) ==
  LET zone_data == chain.parent_zones[z]
      keys == zone_data.dnskey_records
      ds == zone_data.ds_records
  IN [zone_name |-> zone_data.zone_name,
      has_matching_ds |->
        IF zone_has_dnskey(zone_data)
        THEN [k \in 1..Len(keys) |-> keys[k].key_tag \in ds_key_tags(chain, z)]
        ELSE <<>>,
      has_matching_dnskey |->
        IF zone_has_ds(zone_data)
        THEN [k \in 1..Len(ds) |-> ds[k].key_tag \in dnskey_key_tags(chain, z)]
        ELSE <<>>]

\* for zone_data in chain.parent_zones
render_parent_zones(chain) == [z \in 1..Len(chain.parent_zones) |-> render_zone(chain, z)]

-----------------------------------------------------------------------------
(* The status line of the DNSSEC panel, as the label it shows.             *)

\* DNSSECPanel._render_dnssec_data: if is_secure / elif is_bogus /
\* elif not is_secure and not is_bogus / else
_render_dnssec_data(validation) ==
  IF is_secure(validation) THEN "SECURE"
  ELSE IF is_bogus(validation) THEN "BOGUS (validation failed)"
  ELSE IF ~is_secure(validation) /\ ~is_bogus(validation) THEN "INSECURE (not signed)"
  ELSE "? INDETERMINATE"

\* DNSSECPanel.fetch_dnssec_data: if is_secure / elif is_insecure /
\* elif is_bogus / else
fetch_dnssec_data(validation) ==
  IF is_secure(validation) THEN "SECURE"
  ELSE IF is_insecure(validation) THEN "INSECURE (not signed)"
  ELSE IF is_bogus(validation) THEN "BOGUS (validation failed)"
  ELSE "? INDETERMINATE"

-----------------------------------------------------------------------------
(* DNSAdapterFactory.  How the probe of a tool ("dog --version", "dig -v") *)
(* ends: "ok", or the exception subprocess.run raises; PermissionError is  *)
(* the one raised for a tool that is found but may not be executed.        *)

ProbeOutcomes ==
  {"ok", "CalledProcessError", "FileNotFoundError", "TimeoutExpired", "PermissionError"}

\* except (subprocess.CalledProcessError, FileNotFoundError,
\*         subprocess.TimeoutExpired): return False
ProbeCaught == {"CalledProcessError", "FileNotFoundError", "TimeoutExpired"}

is_available(out) ==
  IF out = "ok" THEN [exc |-> "None", val |-> TRUE]
  ELSE IF out \in ProbeCaught THEN [exc |-> "None", val |-> FALSE]
  ELSE [exc |-> out, val |-> FALSE]

\* create(): the tool of the adapter returned, or the exception raised
create(dog_out, dig_out) ==
  LET dog == is_available(dog_out)
      dig == is_available(dig_out)
  IN IF dog.exc # "None" THEN [exc |-> dog.exc, val |-> "None"]
     ELSE IF dog.val THEN [exc |-> "None", val |-> "dog"]
     ELSE IF dig.exc # "None" THEN [exc |-> dig.exc, val |-> "None"]
     ELSE IF dig.val THEN [exc |-> "None", val |-> "dig"]
     ELSE [exc |-> "RuntimeError", val |-> "None"]

get_available_tools(dog_out, dig_out) ==
  LET dog == is_available(dog_out)
      dig == is_available(dig_out)
  IN IF dog.exc # "None" THEN [exc |-> dog.exc, val |-> <<>>]
     ELSE IF dig.exc # "None" THEN [exc |-> dig.exc, val |-> <<>>]
     ELSE [exc |-> "None",
           val |-> (IF dog.val THEN <<"dog">> ELSE <<>>) \o (IF dig.val THEN <<"dig">> ELSE <<>>)]

\* tools[0] if tools else None
get_preferred_tool(dog_out, dig_out) ==
  LET tools == get_available_tools(dog_out, dig_out)
  IN IF tools.exc # "None" THEN [exc |-> tools.exc, val |-> "None"]
     ELSE [exc |-> "None", val |-> IF tools.val # <<>> THEN tools.val[1] ELSE "None"]

-----------------------------------------------------------------------------
(* Two calls for the same domain in which every query gets the same answer *)
(* both times: world also holds the answers of the walk (the same DNSKEY   *)
(* and DS answer at every level).                                          *)

ReplayWorlds ==
  UNION {[adapter : {a}, domain : {d \in Domains : Len(d) < MaxDomainLen},
          ds : Answers(TargetDsOutcomes(a)), dnskey : Answers(TargetDnskeyOutcomes),
          rrsig : Answers(RrsigOutcomes),
          parent_dnskey : Answers(ParentDnskeyOutcomes),
          parent_ds : Answers(ParentDsOutcomes(a))]
         : a \in Adapters}

ReplayInit == call = Idle /\ world \in ReplayWorlds /\ first = None

ReplayRootZone ==
  /\ call.pc = "root"
  /\ call' = validate_root(call, world.parent_dnskey, world.parent_ds)
  /\ UNCHANGED <<world, first>>

ReplayParentLevel ==
  /\ call.pc = "levels"
  /\ call' = validate_level(call, world.parent_dnskey, world.parent_ds)
  /\ UNCHANGED <<world, first>>

ReplaySecondCall ==
  /\ call.pc = "done"
  /\ first = None
  /\ first' = Some(call.result[1])
  /\ call' = Idle
  /\ UNCHANGED world

ReplayNext ==
  \/ PairCall
  \/ PairTargetDS
  \/ PairTargetDNSKEY
  \/ PairSignedQuery
  \/ ReplayRootZone
  \/ ReplayParentLevel
  \/ Build
  \/ ReplaySecondCall

SpecReplay == ReplayInit /\ [][ReplayNext]_vars

-----------------------------------------------------------------------------
(* fetch_all_data: two validate_dnssec invocations on the thread pool, one  *)
(* made by get_dnssec_health and one by fetch_dnssec_validation, for the    *)
(* same domain and with adapters of the same kind.  call is the pair of     *)
(* invocations, world.answers the answers each of them gets; their steps    *)
(* interleave in every order.                                               *)

Threads == {1, 2}

\* One step of an invocation, by its position.
thread_step(c, w) ==
  IF c.pc = "target_ds" THEN validate_target_ds(c, w.ds)
  ELSE IF c.pc = "target_dnskey" THEN validate_target_dnskey(c, w.dnskey)
  ELSE IF c.pc = "rrsig" THEN validate_rrsig(c, w.rrsig)
  ELSE IF c.pc = "root" THEN validate_root(c, w.parent_dnskey, w.parent_ds)
  ELSE IF c.pc = "levels" THEN validate_level(c, w.parent_dnskey, w.parent_ds)
  ELSE IF c.pc = "build" THEN validate_build(c)
  ELSE c

\* The invocation run to its end with no other invocation beside it.
RECURSIVE run_alone(_, _)
run_alone(c, w) == IF c.pc \in {"done", "raised"} THEN c ELSE run_alone(thread_step(c, w), w)

ThreadAnswers ==
  [ds : {[kind |-> "ok", records |-> <<GoodDS>>], [kind |-> "nonzero", records |-> <<>>]},
   dnskey : {[kind |-> "ok", keys |-> SubSeq(Keys, 1, 1)], [kind |-> "ok", keys |-> <<>>]},
   rrsig : {[kind |-> "ok", rrsig |-> TRUE]},
   parent_dnskey : {[kind |-> "ok", keys |-> SubSeq(Keys, 1, 1)]},
   parent_ds : {[kind |-> "ok", records |-> <<GoodDS>>], [kind |-> "nonzero", records |-> <<>>]}]

ThreadWorlds ==
  [adapter : Adapters, domain : {d \in Domains : Len(d) < MaxDomainLen},
   answers : [Threads -> ThreadAnswers]]

ThreadInit ==
  /\ world \in ThreadWorlds
  /\ call = [t \in Threads |-> begin(world.adapter, world.domain)]
  /\ first = None

ThreadTargetDS ==
  /\ \E t \in Threads :
       /\ call[t].pc = "target_ds"
       /\ call' = [call EXCEPT ![t] = validate_target_ds(call[t], world.answers[t].ds)]
  /\ UNCHANGED <<world, first>>

ThreadTargetDNSKEY ==
  /\ \E t \in Threads :
       /\ call[t].pc = "target_dnskey"
       /\ call' = [call EXCEPT ![t] = validate_target_dnskey(call[t], world.answers[t].dnskey)]
  /\ UNCHANGED <<world, first>>

ThreadSignedQuery ==
  /\ \E t \in Threads :
       /\ call[t].pc = "rrsig"
       /\ call' = [call EXCEPT ![t] = validate_rrsig(call[t], world.answers[t].rrsig)]
  /\ UNCHANGED <<world, first>>

ThreadRootZone ==
  /\ \E t \in Threads :
       /\ call[t].pc = "root"
       /\ call' = [call EXCEPT ![t] = validate_root(call[t], world.answers[t].parent_dnskey,
                                                    world.answers[t].parent_ds)]
  /\ UNCHANGED <<world, first>>

ThreadParentLevel ==
  /\ \E t \in Threads :
       /\ call[t].pc = "levels"
       /\ call' = [call EXCEPT ![t] = validate_level(call[t], world.answers[t].parent_dnskey,
                                                     world.answers[t].parent_ds)]
  /\ UNCHANGED <<world, first>>

ThreadBuild ==
  /\ \E t \in Threads :
       /\ call[t].pc = "build"
       /\ call' = [call EXCEPT ![t] = validate_build(call[t])]
  /\ UNCHANGED <<world, first>>

ThreadNext ==
  \/ ThreadTargetDS
  \/ ThreadTargetDNSKEY
  \/ ThreadSignedQuery
  \/ ThreadRootZone
  \/ ThreadParentLevel
  \/ ThreadBuild

SpecThreads == ThreadInit /\ [][ThreadNext]_vars

-----------------------------------------------------------------------------
(* The parsers and the counters applied to inputs of bounded size: call is  *)
(* the argument before the step and the argument with the result after it.  *)

DnskeyScanCalls == {[pc |-> "dnskey_output", lines |-> lines] : lines \in DigOutputs}

MaxDsRecords == 3

\* The values of the DS records of a response: well-formed ones (the second
\* with codes outside both tables), one of three fields, one of five, one
\* with a word in each of the three integer columns and, from dog, one whose
\* "data" is not a string.
OtherDS == [isstr |-> TRUE, fields |-> <<Num(2), Num(UnassignedCode), Num(9), Word>>]
LongDS == [isstr |-> TRUE, fields |-> <<Num(3), Num(8), Num(2), Word, Word>>]
BadTagDS == [isstr |-> TRUE, fields |-> <<Word, Num(8), Num(2), Word>>]
BadAlgorithmDS == [isstr |-> TRUE, fields |-> <<Num(1), Word, Num(2), Word>>]
BadDigestTypeDS == [isstr |-> TRUE, fields |-> <<Num(1), Num(8), Word, Word>>]

ResponseDsValues(adapter) ==
  {GoodDS, OtherDS, LongDS, ShortDS, BadTagDS, BadAlgorithmDS, BadDigestTypeDS}
    \cup (IF adapter = "dog" THEN {NonStrDS} ELSE {})

DsParseCalls ==
  {[pc |-> "ds_response", adapter |-> a, records |-> r] :
     a \in Adapters, r \in UNION {[1..n -> ResponseDsValues("dog")] : n \in 0..MaxDsRecords}}

MaxKeyList == 3

\* Flags of the keys of a list: a KSK, a ZSK, no flag at all and a revoked
\* KSK (257 with the REVOKE bit).
RevokedKskFlags == 385

ListedKeys ==
  {DNSKEYRecord(f, 3, "RSASHA256", 1) : f \in {KSK_FLAGS, ZSK_FLAGS, 0, RevokedKskFlags}}

KeyCountCalls ==
  {[pc |-> "dnskey_list", adapter |-> "dig", records |-> r] :
     r \in UNION {[1..n -> ListedKeys] : n \in 0..MaxKeyList}}

MaxCode == 17

\* Algorithm and digest type codes: negative ones, 0, the codes of both
\* tables and the unassigned codes between and after them.
Codes == (-2)..MaxCode

CodeCalls == {[pc |-> "code", adapter |-> a, code |-> n] : a \in Adapters, n \in Codes}

MaxZones == 2

\* The record lists of a parent zone: keys and DS records with key tags 1
\* and 2, in every selection.
ZoneKeys == SubSeqs(<<DNSKEYRecord(KSK_FLAGS, 3, "RSASHA256", 1),
                      DNSKEYRecord(ZSK_FLAGS, 3, "RSASHA256", 2)>>)

ZoneDs == SubSeqs(<<DSRecord(1, "RSASHA256", "SHA256"), DSRecord(2, "RSASHA256", "SHA256")>>)

RenderedZones == {ZoneData(Root, keys, ds, <<>>) : keys \in ZoneKeys, ds \in ZoneDs}

RenderCalls ==
  {[pc |-> "chain", adapter |-> "dig",
    chain |-> DNSSECChain(<<"a">>, FALSE, FALSE, FALSE, <<>>, <<>>, <<>>, zones)] :
     zones \in UNION {[1..n -> RenderedZones] : n \in 0..MaxZones}}

FactoryCalls ==
  {[pc |-> "tools", adapter |-> "dig", dog |-> o1, dig |-> o2] :
     o1 \in ProbeOutcomes, o2 \in ProbeOutcomes}

PanelCalls ==
  {[pc |-> "validation", adapter |-> "dig",
    validation |-> DNSSECValidation(<<"a">>, st, None, None, <<>>)] : st \in DNSSECStatus}

\* A signature and the two readings of the clock, the second not before the
\* first.
MaxHour == 26
Hours == 0..MaxHour
ExpiryCalls ==
  [pc : {"rrsig"}, adapter : {"dig"}, sig : {RRSIGRecord(e, 0) : e \in Hours},
   now1 : Hours, now2 : Hours]

ParseInit ==
  /\ world = NoWorld
  /\ first = None
  /\ \/ call \in DnskeyScanCalls
     \/ /\ call \in DsParseCalls
        /\ \A k \in 1..Len(call.records) : call.records[k] \in ResponseDsValues(call.adapter)
     \/ call \in KeyCountCalls
     \/ call \in CodeCalls
     \/ call \in RenderCalls
     \/ call \in FactoryCalls
     \/ call \in PanelCalls
     \/ call \in {c \in ExpiryCalls : c.now1 <= c.now2}

ScanDnskey ==
  /\ call.pc = "dnskey_output"
  /\ call' = [pc |-> "dnskey_scanned", lines |-> call.lines,
              result |-> parse_dnskey_output(call.lines)]
  /\ UNCHANGED <<world, first>>

ParseDs ==
  /\ call.pc = "ds_response"
  /\ call' = [pc |-> "ds_parsed", adapter |-> call.adapter, records |-> call.records,
              result |-> _parse_ds_records(DNSResponse(call.records, None))]
  /\ UNCHANGED <<world, first>>

\* chain.ksk_count and chain.zsk_count of a chain holding the listed keys
CountKeys ==
  /\ call.pc = "dnskey_list"
  /\ LET chain == DNSSECChain(<<>>, FALSE, call.records # <<>>, FALSE, <<>>,
                              call.records, <<>>, <<>>)
     IN call' = [pc |-> "keys_counted", adapter |-> call.adapter, records |-> call.records,
                 result |-> [ksk_count |-> ksk_count(chain), zsk_count |-> zsk_count(chain)]]
  /\ UNCHANGED <<world, first>>

\* A code on its way into a chain: read by _parse_algorithm and
\* _parse_digest_type, as the algorithm column of a KSK line of dig's output,
\* as the algorithm and digest type of a DS value, and the chain built of
\* the records parsed from them.
ParseCode ==
  /\ call.pc = "code"
  /\ LET n == call.code
         keys == parse_dnskey_output(
                   <<EntryLine(Num(60), Num(KSK_FLAGS), Num(3), Num(n), FALSE)>>)
         ds == _parse_ds_records(DNSResponse(
                 <<[isstr |-> TRUE, fields |-> <<Num(1), Num(n), Num(n), Word>>]>>, None))
         chain == build_chain([Idle EXCEPT !.adapter = call.adapter,
                                           !.dnskey_records = keys,
                                           !.has_dnskey = Len(keys) > 0,
                                           !.ds_records = ds.val,
                                           !.has_ds = TRUE])
     IN call' = [pc |-> "code_parsed", adapter |-> call.adapter, code |-> n,
                 result |-> [algorithm |-> _parse_algorithm(n),
                             digest_type |-> _parse_digest_type(n),
                             raised |-> ds.exc # "None",
                             chain |-> chain,
                             ksk_count |-> ksk_count(chain),
                             zsk_count |-> zsk_count(chain)]]
  /\ UNCHANGED <<world, first>>

RenderChain ==
  /\ call.pc = "chain"
  /\ call' = [pc |-> "chain_rendered", adapter |-> call.adapter, chain |-> call.chain,
              result |-> render_parent_zones(call.chain)]
  /\ UNCHANGED <<world, first>>

\* create() and get_preferred_tool() with the same outcome of each probe
CreateAdapter ==
  /\ call.pc = "tools"
  /\ call' = [pc |-> "created", adapter |-> call.adapter, dog |-> call.dog, dig |-> call.dig,
              result |-> [created |-> create(call.dog, call.dig),
                          preferred |-> get_preferred_tool(call.dog, call.dig)]]
  /\ UNCHANGED <<world, first>>

\* The status line of one validation as each of the two renderers shows it
RenderStatus ==
  /\ call.pc = "validation"
  /\ call' = [pc |-> "status_rendered", adapter |-> call.adapter,
              validation |-> call.validation,
              result |-> [rendered |-> _render_dnssec_data(call.validation),
                          fetched |-> fetch_dnssec_data(call.validation)]]
  /\ UNCHANGED <<world, first>>

\* first_sig.days_until_expiry
DaysUntilExpiry ==
  /\ call.pc = "rrsig"
  /\ call' = [pc |-> "days", adapter |-> call.adapter, sig |-> call.sig,
              now1 |-> call.now1, now2 |-> call.now2,
              result |-> days_until_expiry(call.sig, call.now1, call.now2)]
  /\ UNCHANGED <<world, first>>

ParseNext ==
  \/ ScanDnskey
  \/ ParseDs
  \/ CountKeys
  \/ ParseCode
  \/ RenderChain
  \/ CreateAdapter
  \/ RenderStatus
  \/ DaysUntilExpiry

SpecParse == ParseInit /\ [][ParseNext]_vars

-----------------------------------------------------------------------------
(* StateManager (state.py).  world is the class and its instances:         *)
(* _instance is the class attribute, objects the instances ever created    *)
(* (each with its _state), handles what each StateManager() call returned  *)
(* (0: not called yet), clock the value datetime.now() returns next.       *)
(* call is the last call made: its name, its handle, the exception it      *)
(* raised, and whether initialize has been called since the construction   *)
(* or the last clear.                                                      *)

MaxClock == 2
Handles == {1, 2}
Data == {"d1", "d2"}
Responses == {{}, {"A"}}
HealthArgs == {"h1", "h2"}

AppState(domain) ==
  [domain |-> domain,
   dns_responses |-> {}, dns_last_updated |-> None,
   dnssec_validation |-> None, dnssec_last_updated |-> None,
   tls_info |-> None, tls_last_updated |-> None,
   http_response |-> None, http_last_updated |-> None,
   registration |-> None, registration_last_updated |-> None,
   email_config |-> None, email_last_updated |-> None,
   http_health |-> None, cert_health |-> None, dns_health |-> None,
   registry_health |-> None, dnssec_health |-> None, email_health |-> None]

\* cls._instance = super().__new__(cls): _state is the class attribute, None
NewManager == [_state |-> None]

\* StateManager.__new__ for the call that gives handle h
new(w, h) ==
  IF w._instance = None
  THEN [w EXCEPT !._instance = Some(Len(w.objects) + 1),
                 !.objects = Append(w.objects, NewManager),
                 !.handles[h] = Len(w.objects) + 1]
  ELSE [w EXCEPT !.handles[h] = w._instance[1]]

initialize(m, domain) == [m EXCEPT !._state = Some(AppState(domain))]

\* The property state
state(m) ==
  IF m._state = None THEN Raised("RuntimeError") ELSE Returned(m._state[1])

raised(m) == [exc |-> "RuntimeError", val |-> m]
updated(m, st) == [exc |-> "None", val |-> [m EXCEPT !._state = Some(st)]]

update_dns(m, responses, now) ==
  IF state(m).exc # "None" THEN raised(m)
  ELSE updated(m, [state(m).val EXCEPT !.dns_responses = responses,
                                       !.dns_last_updated = Some(now)])

\* Mutant: update_dnssec stamping the DNS data as well.
update_dnssec_stamps_dns(m, validation, now) ==
  IF state(m).exc # "None" THEN raised(m)
  ELSE updated(m, [state(m).val EXCEPT !.dnssec_validation = Some(validation),
                                       !.dnssec_last_updated = Some(now),
                                       !.dns_last_updated = Some(now)])

update_dnssec(m, validation, now) ==
  IF state(m).exc # "None" THEN raised(m)
  ELSE updated(m, [state(m).val EXCEPT !.dnssec_validation = Some(validation),
                                       !.dnssec_last_updated = Some(now)])

update_tls(m, tls_info, now) ==
  IF state(m).exc # "None" THEN raised(m)
  ELSE updated(m, [state(m).val EXCEPT !.tls_info = Some(tls_info),
                                       !.tls_last_updated = Some(now)])

update_http(m, response, now) ==
  IF state(m).exc # "None" THEN raised(m)
  ELSE updated(m, [state(m).val EXCEPT !.http_response = Some(response),
                                       !.http_last_updated = Some(now)])

update_registration(m, registration, now) ==
  IF state(m).exc # "None" THEN raised(m)
  ELSE updated(m, [state(m).val EXCEPT !.registration = Some(registration),
                                       !.registration_last_updated = Some(now)])

update_email(m, email_config, now) ==
  IF state(m).exc # "None" THEN raised(m)
  ELSE updated(m, [state(m).val EXCEPT !.email_config = Some(email_config),
                                       !.email_last_updated = Some(now)])

update_health_data(m, http, cert, dns, registry, dnssec, email) ==
  IF state(m).exc # "None" THEN raised(m)
  ELSE updated(m, [state(m).val EXCEPT !.http_health = Some(http),
                                       !.cert_health = Some(cert),
                                       !.dns_health = Some(dns),
                                       !.registry_health = Some(registry),
                                       !.dnssec_health = Some(dnssec),
                                       !.email_health = Some(email)])

clear(m) == [m EXCEPT !._state = None]

NoCall == [pc |-> "none", handle |-> 0, exc |-> "None", initialized |-> FALSE]

StateInit ==
  /\ world = [_instance |-> None, objects |-> <<>>, handles |-> [h \in Handles |-> 0],
              clock |-> 0]
  /\ call = NoCall
  /\ first = None

Manager(w, h) == w.objects[w.handles[h]]

Called(name, h, exc, initialized) ==
  call' = [pc |-> name, handle |-> h, exc |-> exc, initialized |-> initialized]

\* An update through handle h: r is what the method did to the manager
Update(name, h, r) ==
  /\ world' = [world EXCEPT !.objects[world.handles[h]] = r.val,
                            !.clock = IF r.exc = "None" THEN @ + 1 ELSE @]
  /\ Called(name, h, r.exc, call.initialized)
  /\ UNCHANGED first

Construct ==
  \E h \in Handles :
    /\ world' = new(world, h)
    /\ Called("new", h, "None", call.initialized)
    /\ UNCHANGED first

Initialize ==
  \E h \in Handles, d \in {<<"a">>, <<"b">>} :
    /\ world.handles[h] # 0
    /\ world' = [world EXCEPT !.objects[world.handles[h]] = initialize(@, d)]
    /\ Called("initialize", h, "None", TRUE)
    /\ UNCHANGED first

ReadState ==
  \E h \in Handles :
    /\ world.handles[h] # 0
    /\ Called("state", h, state(Manager(world, h)).exc, call.initialized)
    /\ UNCHANGED <<world, first>>

UpdateDns ==
  \E h \in Handles, responses \in Responses :
    /\ world.handles[h] # 0 /\ world.clock < MaxClock
    /\ Update("update_dns", h, update_dns(Manager(world, h), responses, world.clock))

UpdateDnssec ==
  \E h \in Handles, validation \in Data :
    /\ world.handles[h] # 0 /\ world.clock < MaxClock
    /\ Update("update_dnssec", h, update_dnssec(Manager(world, h), validation, world.clock))

UpdateTls ==
  \E h \in Handles, tls_info \in Data :
    /\ world.handles[h] # 0 /\ world.clock < MaxClock
    /\ Update("update_tls", h, update_tls(Manager(world, h), tls_info, world.clock))

UpdateHttp ==
  \E h \in Handles, response \in Data :
    /\ world.handles[h] # 0 /\ world.clock < MaxClock
    /\ Update("update_http", h, update_http(Manager(world, h), response, world.clock))

UpdateRegistration ==
  \E h \in Handles, registration \in Data :
    /\ world.handles[h] # 0 /\ world.clock < MaxClock
    /\ Update("update_registration", h,
              update_registration(Manager(world, h), registration, world.clock))

UpdateEmail ==
  \E h \in Handles, email_config \in Data :
    /\ world.handles[h] # 0 /\ world.clock < MaxClock
    /\ Update("update_email", h, update_email(Manager(world, h), email_config, world.clock))

UpdateHealthData ==
  \E h \in Handles, http \in HealthArgs, dnssec \in HealthArgs :
    /\ world.handles[h] # 0 /\ world.clock < MaxClock
    /\ Update("update_health_data", h,
              update_health_data(Manager(world, h), http, "h1", "h1", "h1", dnssec, "h1"))

Clear ==
  \E h \in Handles :
    /\ world.handles[h] # 0
    /\ world' = [world EXCEPT !.objects[world.handles[h]] = clear(@)]
    /\ Called("clear", h, "None", FALSE)
    /\ UNCHANGED first

StateNext ==
  \/ Construct
  \/ Initialize
  \/ ReadState
  \/ UpdateDns
  \/ UpdateDnssec
  \/ UpdateTls
  \/ UpdateHttp
  \/ UpdateRegistration
  \/ UpdateEmail
  \/ UpdateHealthData
  \/ Clear

SpecState == StateInit /\ [][StateNext]_vars

-----------------------------------------------------------------------------
(* Termination.  A run is one validate_dnssec call, each step taken once   *)
(* its queries have returned or timed out, or one scan of a dig output,    *)
(* one loop iteration per step.  Every subprocess.run has a timeout, and   *)
(* the scanner is straight-line code between its loop tests, so a step     *)
(* that can be taken is taken: weak fairness on the next step.             *)

\* One line of each kind: key material, a closing line, a multi-line and a
\* single-line entry, and an entry with a word in a column.
LiveLines ==
  {TextLine, CloseLine(Some(7)),
   EntryLine(Num(60), Num(KSK_FLAGS), Num(3), Num(8), TRUE),
   EntryLine(Num(60), Num(ZSK_FLAGS), Num(3), Num(13), FALSE),
   EntryLine(Num(60), Word, Num(3), Num(8), TRUE)}

LiveOutputs == UNION {[1..n -> LiveLines] : n \in 0..MaxLines}

LiveInit ==
  /\ world = NoWorld
  /\ first = None
  /\ \/ call = Idle
     \/ call \in {scan_begin(lines) : lines \in LiveOutputs}

\* The ways a lookup can end: no record, one record, one record that the
\* parser raises on (dog), the tool failing, the tool timing out.
LiveDsOutcomes(adapter) ==
  DsOutcomesOver({<<>>, <<GoodDS>>} \cup (IF adapter = "dog" THEN {<<NonStrDS>>} ELSE {}))

LiveDnskeyOutcomes == DnskeyOutcomesOver({<<>>, <<Keys[1]>>})

LiveTargetDS ==
  /\ call.pc = "target_ds"
  /\ \E out \in LiveDsOutcomes(call.adapter) : call' = validate_target_ds(call, out)
  /\ UNCHANGED <<world, first>>

LiveTargetDNSKEY ==
  /\ call.pc = "target_dnskey"
  /\ \E out \in LiveDnskeyOutcomes : call' = validate_target_dnskey(call, out)
  /\ UNCHANGED <<world, first>>

LiveRootZone ==
  /\ call.pc = "root"
  /\ \E outk \in LiveDnskeyOutcomes, outd \in LiveDsOutcomes(call.adapter) :
       call' = validate_root(call, outk, outd)
  /\ UNCHANGED <<world, first>>

LiveParentLevel ==
  /\ call.pc = "levels"
  /\ \E outk \in LiveDnskeyOutcomes, outd \in LiveDsOutcomes(call.adapter) :
       call' = validate_level(call, outk, outd)
  /\ UNCHANGED <<world, first>>

ScanOuter ==
  /\ call.pc = "scan_outer"
  /\ call' = scan_outer(call)
  /\ UNCHANGED <<world, first>>

ScanInner ==
  /\ call.pc = "scan_inner"
  /\ call' = scan_inner(call)
  /\ UNCHANGED <<world, first>>

LiveNext ==
  \/ Call
  \/ LiveTargetDS
  \/ LiveTargetDNSKEY
  \/ SignedQuery
  \/ LiveRootZone
  \/ LiveParentLevel
  \/ Build
  \/ ScanOuter
  \/ ScanInner

SpecLive == LiveInit /\ [][LiveNext]_vars /\ WF_vars(LiveNext)

-----------------------------------------------------------------------------
(* Properties of the returned DNSSECValidation *)

Done == call.pc = "done"
Res == call.result[1]
HasChain == Done /\ Res.chain # None
Chain == Res.chain[1]
Labels == split(rstrip(call.domain, "."), ".")

IsErrorResult(r) ==
  /\ r.status = "INDETERMINATE"
  /\ r.chain = None
  /\ r.error_message # None
  /\ r.error_message[1] # ""

\* C1: a result with status SECURE has chain.has_chain_of_trust (DS, DNSKEY
\* and RRSIG all present); DNSKEY and DS without RRSIG is not SECURE.
C1_SecureImpliesChainOfTrust ==
  (HasChain /\ Res.status = "SECURE") => has_chain_of_trust(Chain)

\* C2: when the tool run of the target's own DS or DNSKEY lookup fails, the
\* result is INDETERMINATE with no chain and a non-empty error_message.
C2_TargetFailureIsError ==
  (Done /\ (call.lookups.ds = "failed" \/ call.lookups.dnskey = "failed"))
    => IsErrorResult(Res)

\* C3: no exception leaves validate_dnssec; a call that ends has returned a
\* DNSSECValidation.
C3_NeverRaises ==
  /\ call.pc # "raised"
  /\ Done => /\ call.result # None
             /\ Res.status \in {"SECURE", "INSECURE", "BOGUS", "INDETERMINATE"}

C3_Witness == Done /\ call.domain = <<>> /\ "outer" \in call.caught

\* C4 as claimed: if any exception occurred during the call the result is an
\* error result, otherwise it carries a chain and no error_message.
C4_AnyExceptionGivesError ==
  Done => IF call.caught # {} THEN IsErrorResult(Res)
          ELSE Res.chain # None /\ Res.error_message = None

\* C4 as amended: exactly one of chain and error_message is set; the result
\* is an error result iff an exception reached the handler around the whole
\* body, and exceptions taken by the signed query's or a level's own except
\* clause leave a result with a chain.
C4_ExactlyOneOfChainAndError ==
  Done => IF "outer" \in call.caught THEN IsErrorResult(Res)
          ELSE Res.chain # None /\ Res.error_message = None

C4_Witness ==
  Done /\ "outer" \in call.caught /\ call.queries # <<>> /\ call.domain # <<>>

\* C5: a chain with has_dnskey_record false has status INSECURE, whatever
\* has_ds_record and has_rrsig_record are.
C5_NoDnskeyIsInsecure ==
  (HasChain /\ ~Chain.has_dnskey_record) => Res.status = "INSECURE"

C5_Witness ==
  HasChain /\ ~Chain.has_dnskey_record /\ Chain.has_ds_record /\ Chain.has_rrsig_record

\* C6: when the target's DNSKEY, DS and RRSIG lookups all ended with at least
\* one record, the result has a chain with the three flags true and status
\* SECURE.
C6_AllPresentIsSecure ==
  (Done /\ call.lookups = [ds |-> "records", dnskey |-> "records", rrsig |-> "records"])
    => /\ Res.chain # None
       /\ Chain.has_dnskey_record /\ Chain.has_ds_record /\ Chain.has_rrsig_record
       /\ Res.status = "SECURE"

C6_Witness ==
  /\ Done
  /\ call.lookups = [ds |-> "records", dnskey |-> "records", rrsig |-> "records"]
  /\ ksk_count_of(call.dnskey_records) = 1 /\ zsk_count_of(call.dnskey_records) = 1

IsSuffix(s, t) == Len(s) <= Len(t) /\ SubSeq(t, Len(t) - Len(s) + 1, Len(t)) = s

\* Root first, then each zone a proper suffix of the next.
InWalkOrder(za, zb) ==
  /\ zb # Root
  /\ za # Root => Len(za) < Len(zb) /\ IsSuffix(za, zb)

\* C7: parent_zones is in root-to-target-parent order: a root entry only at
\* index 0, every other entry a proper suffix of the ones after it and of the
\* domain.
C7_ParentZonesRootFirst ==
  HasChain =>
    LET zones == Chain.parent_zones
        target == rstrip(call.domain, ".")
    IN /\ \A j, k \in 1..Len(zones) :
            j < k => InWalkOrder(zones[j].zone_name, zones[k].zone_name)
       /\ \A j \in 1..Len(zones) :
            zones[j].zone_name # Root =>
              /\ Len(zones[j].zone_name) < Len(target)
              /\ IsSuffix(zones[j].zone_name, target)

C7_Witness ==
  /\ HasChain /\ Len(Chain.parent_zones) = 3
  /\ Chain.parent_zones[1].zone_name = Root
  /\ Chain.parent_zones[1].dnskey_records = <<>>

\* C8: for a domain of n labels parent_zones has exactly n entries, whatever
\* failed or raised at a level.
C8_NoLevelSkipped ==
  HasChain => Len(Chain.parent_zones) = Len(Labels)

\* C9: two calls that get the same answers to the target's own lookups
\* return the same status, warnings and target flags whatever the root and
\* parent levels answered, and the second is an error only if the first is.
C9_ParentsDoNotChangeVerdict ==
  (Done /\ first # None) => Verdict(Res) = first[1].verdict

C9_Witness ==
  /\ Done /\ first # None
  /\ Res.status = "SECURE"
  /\ first[1].parents_empty
  /\ parent_record_count(call.parent_zones) >= 2

\* C10: each presence flag of the chain equals the non-emptiness of the
\* record list of the same name.
C10_FlagsMatchLists ==
  HasChain =>
    /\ Chain.has_ds_record <=> (Chain.ds_records # <<>>)
    /\ Chain.has_dnskey_record <=> (Chain.dnskey_records # <<>>)
    /\ Chain.has_rrsig_record <=> (Chain.rrsig_records # <<>>)

\* C11: in a returned result with a chain, each of the three warnings is
\* present exactly when its own condition holds (missing DS: DNSKEY present
\* and DS absent; no KSK: DNSKEY present and no key with flags 257; no ZSK:
\* DNSKEY present and no key with flags 256), nothing else is in warnings,
\* and a result for a target without DNSKEY records has no warnings.
Elems(s) == {s[k] : k \in 1..Len(s)}

HasFlags(keys, flags) == \E k \in 1..Len(keys) : keys[k].flags = flags

C11_WarningsExactlyByCondition ==
  Done =>
    /\ Elems(Res.warnings) \subseteq {WarnNoDS, WarnNoKSK, WarnNoZSK}
    /\ HasChain =>
         /\ WarnNoDS \in Elems(Res.warnings)
              <=> (Chain.has_dnskey_record /\ ~Chain.has_ds_record)
         /\ WarnNoKSK \in Elems(Res.warnings)
              <=> (Chain.has_dnskey_record /\ ~HasFlags(Chain.dnskey_records, KSK_FLAGS))
         /\ WarnNoZSK \in Elems(Res.warnings)
              <=> (Chain.has_dnskey_record /\ ~HasFlags(Chain.dnskey_records, ZSK_FLAGS))
         /\ Chain.dnskey_records = <<>> => Res.warnings = <<>>
    /\ ~HasChain => Res.warnings = <<>>

C11_Witness ==
  /\ HasChain
  /\ Chain.has_dnskey_record /\ ~Chain.has_ds_record
  /\ HasFlags(Chain.dnskey_records, ZSK_FLAGS)
  /\ ~HasFlags(Chain.dnskey_records, KSK_FLAGS)
  /\ Res.warnings = <<WarnNoDS, WarnNoKSK>>

\* C12 (as stated): after the scan every well-formed DNSKEY entry of the
\* output (its four columns numeric, and a multi-line key closed by a line
\* with ")") is among the records returned, whatever malformed entries the
\* same output holds.
RECURSIVE WellFormedKeys(_, _)
WellFormedKeys(lines, i) ==
  IF i > Len(lines) THEN <<>>
  ELSE IF ~is_dnskey_line(lines[i]) \/ ~fields_are_int(lines[i])
       THEN WellFormedKeys(lines, i + 1)
  ELSE IF ~lines[i].paren
       THEN <<make_dnskey(lines[i], None)>> \o WellFormedKeys(lines, i + 1)
  ELSE LET j == find_close(lines, i + 1)
       IN IF j <= Len(lines) /\ \A k \in (i + 1)..(j - 1) : lines[k].kind = "text"
          THEN <<make_dnskey(lines[i], lines[j].key_id)>> \o WellFormedKeys(lines, j + 1)
          ELSE WellFormedKeys(lines, i + 1)

C12_BadEntryDropsOnlyItself ==
  call.pc = "dnskey_scanned" =>
    Elems(WellFormedKeys(call.lines, 1)) \subseteq Elems(call.result)

\* C13 (as stated): _parse_ds_records returns, without raising, exactly the
\* DS records of the well-formed values of the response, in input order;
\* a value with fewer than four fields or with a key tag, algorithm or
\* digest type that is not an integer is left out and removes no sibling.
WellFormedDsValue(v) ==
  v.isstr /\ Len(v.fields) >= 4 /\ \A k \in 1..3 : v.fields[k].num

RECURSIVE WellFormedDs(_)
WellFormedDs(records) ==
  IF records = <<>> THEN <<>>
  ELSE LET v == Head(records)
       IN (IF WellFormedDsValue(v)
           THEN <<DSRecord(v.fields[1].n, _parse_algorithm(v.fields[2].n),
                           _parse_digest_type(v.fields[3].n))>>
           ELSE <<>>) \o WellFormedDs(Tail(records))

C13_ParseDsReturnsWellFormed ==
  call.pc = "ds_parsed" => call.result = Returned(WellFormedDs(call.records))

\* The same for the responses whose values are all strings.
C13_StringValuesOnly ==
  (call.pc = "ds_parsed" /\ \A k \in 1..Len(call.records) : call.records[k].isstr)
    => call.result = Returned(WellFormedDs(call.records))

\* C14 (as stated): the first queries of every call are the DNSKEY query for
\* "." and the DS query for the top-level label.
C14_RootQueriedFirst ==
  /\ Len(call.queries) >= 1 => call.queries[1] = <<"DNSKEY", Root>>
  /\ Len(call.queries) >= 2 => call.queries[2][1] = "DS"

\* C14 (amended): a call first makes the target's own three lookups (DS,
\* DNSKEY, the signed query) and then starts the walk at the root: the
\* fourth query is the DNSKEY query for "." and the fifth, if any, the DS
\* query for the top-level label, before any query of a later level.
SignedQueryType == IF call.adapter = "dig" THEN "NS" ELSE "SOA"

C14_RootFirstInWalk ==
  call.pc \in {"target_ds", "target_dnskey", "rrsig", "root", "levels", "build", "done"} =>
    LET q == call.queries
    IN /\ Len(q) >= 1 => q[1] = <<"DS", call.domain>>
       /\ Len(q) >= 2 => q[2] = <<"DNSKEY", call.domain>>
       /\ Len(q) >= 3 => q[3] = <<SignedQueryType, call.domain>>
       /\ Len(q) >= 4 => q[4] = <<"DNSKEY", Root>>
       /\ Len(q) >= 5 => q[5] = <<"DS", Labels[Len(Labels)]>>
       /\ call.pc \in {"levels", "build"} => Len(q) >= 4

C14_Witness ==
  /\ Done
  /\ Len(call.queries) >= 7
  /\ call.queries[4] = <<"DNSKEY", Root>>
  /\ call.queries[6][1] = "DNSKEY" /\ call.queries[6][2] # Root

\* C15: for a domain of labels l1 ... ln the queries after those of the root
\* are, for k = 1 .. n-1 in this order, the DNSKEY query for the zone of the
\* last k labels followed by the DS query for the zone of the last k+1
\* labels; so the last DS query is for the target and no level asks for
\* the target's DNSKEY set.
SuffixZone(k) == join(".", SubSeq(Labels, Len(Labels) - k + 1, Len(Labels)))

WalkQueries == SubSeq(call.queries, 6, Len(call.queries))

C15_WalkVisitsEachParentOnce ==
  (HasChain /\ Len(Labels) >= 2) =>
    /\ Len(WalkQueries) = 2 * (Len(Labels) - 1)
    /\ \A k \in 1..(Len(Labels) - 1) :
         /\ WalkQueries[2 * k - 1] = <<"DNSKEY", SuffixZone(k)>>
         /\ WalkQueries[2 * k] = <<"DS", SuffixZone(k + 1)>>
    /\ WalkQueries[Len(WalkQueries)] = <<"DS", rstrip(call.domain, ".")>>
    /\ \A k \in 1..Len(WalkQueries) :
         WalkQueries[k] # <<"DNSKEY", rstrip(call.domain, ".")>>

C15_Witness ==
  /\ HasChain
  /\ Len(Labels) >= 2
  /\ Len(WalkQueries) = 2 * (Len(Labels) - 1)
  /\ WalkQueries[Len(WalkQueries)] = <<"DS", rstrip(call.domain, ".")>>

\* C16: for every list of DNSKEY records ksk_count is the number of records
\* with flags 257 and zsk_count the number with flags 256; no record counts
\* in both, a record with other flags counts in neither, and the two counts
\* together do not exceed the length of the list.
WithFlags(keys, flags) == {k \in 1..Len(keys) : keys[k].flags = flags}

C16_KeyCountsByFlags ==
  call.pc = "keys_counted" =>
    /\ call.result.ksk_count = Cardinality(WithFlags(call.records, KSK_FLAGS))
    /\ call.result.zsk_count = Cardinality(WithFlags(call.records, ZSK_FLAGS))
    /\ WithFlags(call.records, KSK_FLAGS) \cap WithFlags(call.records, ZSK_FLAGS) = {}
    /\ call.result.ksk_count + call.result.zsk_count <= Len(call.records)

C16_Witness ==
  /\ call.pc = "keys_counted"
  /\ WithFlags(call.records, KSK_FLAGS) # {}
  /\ WithFlags(call.records, ZSK_FLAGS) # {}
  /\ WithFlags(call.records, RevokedKskFlags) # {}
  /\ call.result = [ksk_count |-> 1, zsk_count |-> 1]

C18_BogusUnreachable ==
  Done =>
    /\ Res.status \in DNSSECStatus \ {"BOGUS"}
    /\ ~is_bogus(Res)

C18_Witness ==
  /\ HasChain
  /\ call.adapter = "dog"
  /\ Chain.has_dnskey_record /\ ~Chain.has_ds_record /\ ~Chain.has_rrsig_record
  /\ Res.status = "INDETERMINATE"

\* C19: _parse_algorithm and _parse_digest_type give a variant for every
\* integer code, UNKNOWN for each code outside their tables (0, negative
\* codes, the unassigned 4, 9 and 11 among them), and a DNSKEY or DS record
\* carrying such a code is still parsed, held by the chain and counted by
\* ksk_count.
DNSSECAlgorithm == {algorithm_map[n] : n \in AlgorithmCodes} \cup {"UNKNOWN"}

DigestType == {digest_map[n] : n \in DigestCodes} \cup {"UNKNOWN"}

C19_UnknownCodesAreParsed ==
  call.pc = "code_parsed" =>
    LET r == call.result
    IN /\ r.algorithm \in DNSSECAlgorithm
       /\ r.digest_type \in DigestType
       /\ call.code \notin {1, 2, 3, 5, 6, 7, 8, 10, 12, 13, 14, 15, 16}
            => r.algorithm = "UNKNOWN"
       /\ call.code \notin {1, 2, 3, 4} => r.digest_type = "UNKNOWN"
       /\ ~r.raised
       /\ Len(r.chain.dnskey_records) = 1
       /\ r.chain.dnskey_records[1].algorithm = r.algorithm
       /\ r.ksk_count = 1 /\ r.zsk_count = 0
       /\ Len(r.chain.ds_records) = 1
       /\ r.chain.ds_records[1].algorithm = r.algorithm
       /\ r.chain.ds_records[1].digest_type = r.digest_type

C19_Witness ==
  /\ call.pc = "code_parsed"
  /\ call.code = 11
  /\ call.result.algorithm = "UNKNOWN" /\ call.result.digest_type = "UNKNOWN"
  /\ call.result.chain.dnskey_records[1].algorithm = "UNKNOWN"
  /\ call.result.ksk_count = 1

\* C20: in the rendering of a chain, a DNSKEY of a parent zone is marked
\* matched exactly when a DS record of the same zone has its key tag, and a
\* DS record exactly when a DNSKEY of the same zone has its key tag; a zone
\* without DNSKEY records has no DS marked, and a record of another zone
\* never makes a match.
ParentZone(z) == call.chain.parent_zones[z]

C20_MatchesWithinOneLevel ==
  call.pc = "chain_rendered" =>
    /\ Len(call.result) = Len(call.chain.parent_zones)
    /\ \A z \in 1..Len(call.result) :
         LET keys == ParentZone(z).dnskey_records
             ds == ParentZone(z).ds_records
         IN /\ Len(call.result[z].has_matching_ds) = Len(keys)
            /\ Len(call.result[z].has_matching_dnskey) = Len(ds)
            /\ \A k \in 1..Len(keys) :
                 call.result[z].has_matching_ds[k]
                   <=> \E d \in 1..Len(ds) : ds[d].key_tag = keys[k].key_tag
            /\ \A d \in 1..Len(ds) :
                 call.result[z].has_matching_dnskey[d]
                   <=> \E k \in 1..Len(keys) : keys[k].key_tag = ds[d].key_tag
            /\ keys = <<>> => \A d \in 1..Len(ds) : ~call.result[z].has_matching_dnskey[d]

\* Two zones: the first holds key 1 and the DS of key 2, the second the DS
\* of key 1 and no key; nothing is marked in either.
C20_Witness ==
  /\ call.pc = "chain_rendered"
  /\ Len(call.result) = 2
  /\ key_tags_of(ParentZone(1).dnskey_records) = {1}
  /\ key_tags_of(ParentZone(1).ds_records) = {2}
  /\ ParentZone(2).dnskey_records = <<>>
  /\ key_tags_of(ParentZone(2).ds_records) = {1}
  /\ call.result[1].has_matching_ds = <<FALSE>>
  /\ call.result[2].has_matching_dnskey = <<FALSE>>

\* C21 (as stated): create() returns a DogAdapter whenever dog can be run,
\* a DigAdapter only when dog cannot and dig can, and raises RuntimeError
\* exactly when neither can be run; with the same probes,
\* get_preferred_tool() names the tool of the adapter create() returns and
\* is None exactly when create() raises.
Runs(out) == out = "ok"

C21_FactoryPrefersDog ==
  call.pc = "created" =>
    LET c == call.result.created
        p == call.result.preferred
    IN /\ Runs(call.dog) => (c.exc = "None" /\ c.val = "dog")
       /\ (c.exc = "None" /\ c.val = "dig") => (~Runs(call.dog) /\ Runs(call.dig))
       /\ c.exc = "RuntimeError" <=> (~Runs(call.dog) /\ ~Runs(call.dig))
       /\ c.exc = "None" => (p.exc = "None" /\ p.val = c.val)
       /\ c.exc # "None" <=> (p.exc = "None" /\ p.val = "None")

\* The same when each probe ends in a way is_available handles.
C21_HandledProbesOnly ==
  (call.pc = "created" /\ call.dog \in ProbeCaught \cup {"ok"}
     /\ call.dig \in ProbeCaught \cup {"ok"}) => C21_FactoryPrefersDog

\* C22: whatever the interleaving of the two invocations, each returns the
\* result it returns when run alone with the same answers, and the
\* parent_zones of its chain are in root-first order.
ZonesRootFirst(zones) ==
  \A j, k \in 1..Len(zones) : j < k => InWalkOrder(zones[j].zone_name, zones[k].zone_name)

OwnKeyTag(lines, i) ==
  LET j == find_close(lines, i + 1)
      computed == (lines[i].fields[2].n + lines[i].fields[3].n + lines[i].fields[4].n) % 65536
  IN IF lines[i].paren /\ j <= Len(lines) /\ lines[j].key_id # None THEN lines[j].key_id[1]
     ELSE computed

RECURSIVE OwnKeyTags(_, _)
OwnKeyTags(lines, i) ==
  IF i > Len(lines) THEN <<>>
  ELSE IF ~is_dnskey_line(lines[i]) \/ ~fields_are_int(lines[i]) THEN OwnKeyTags(lines, i + 1)
  ELSE <<OwnKeyTag(lines, i)>>
       \o OwnKeyTags(lines, IF lines[i].paren THEN find_close(lines, i + 1) + 1 ELSE i + 1)

C23_KeyTagIsTheRecordsOwn ==
  (call.pc = "dnskey_scanned" /\ call.result # <<>>) =>
    [k \in 1..Len(call.result) |-> call.result[k].key_tag] = OwnKeyTags(call.lines, 1)

\* The same for the outputs in which every multi-line key is closed.
AllClosed(lines) ==
  \A i \in 1..Len(lines) :
    (is_dnskey_line(lines[i]) /\ lines[i].paren) => find_close(lines, i + 1) <= Len(lines)

C23_ClosedEntriesOnly ==
  (call.pc = "dnskey_scanned" /\ AllClosed(call.lines)) => C23_KeyTagIsTheRecordsOwn

\* C24 (as stated): _render_dnssec_data shows every status under its own
\* label (SECURE, BOGUS, INSECURE, and INDETERMINATE for any other status),
\* the same label as fetch_dnssec_data shows.
StatusLabel(status) ==
  IF status = "SECURE" THEN "SECURE"
  ELSE IF status = "BOGUS" THEN "BOGUS (validation failed)"
  ELSE IF status = "INSECURE" THEN "INSECURE (not signed)"
  ELSE "? INDETERMINATE"

C24_StatusShownByOwnLabel ==
  call.pc = "status_rendered" =>
    /\ call.result.rendered = StatusLabel(call.validation.status)
    /\ call.result.rendered = call.result.fetched

\* C25 (as stated): when validate_dnssec returned an error result
\* (error_message set, chain null), the dashboard's DNSSEC component is
\* 'warn' and is counted in total_issues; it is not 'neutral'.
Statuses(o) ==
  << o.http_status, o.cert_status, o.dns_status, o.registry_status,
     o.dnssec_status, o.email_status >>

OthersIssues(o) ==
  Cardinality({i \in {1, 2, 3, 4, 6} : Statuses(o)[i] \in {"fail", "warn"}})

C25_ErrorResultIsWarn ==
  (call.pc = "overall_health" /\ call.error_message # None) =>
    /\ call.overall.dnssec_status = "warn"
    /\ call.overall.total_issues = OthersIssues(call.overall) + 1

\* C27: for every result validate_dnssec can return, the dashboard's DNSSEC
\* component is never 'fail'; domain_status is 'critical' iff some component
\* is 'fail', 'warning' iff none is 'fail' and some is 'warn', else
\* 'healthy'; total_issues is the number of 'fail' plus 'warn' components.
Components == 1..6

C27_DnssecNeverFailsTheDomain ==
  call.pc = "overall_health" =>
    LET o == call.overall
        st == Statuses(o)
        fails == {i \in Components : st[i] = "fail"}
        warns == {i \in Components : st[i] = "warn"}
    IN /\ o.dnssec_status # "fail"
       /\ o.domain_status = "critical" <=> fails # {}
       /\ o.domain_status = "warning" <=> (fails = {} /\ warns # {})
       /\ o.domain_status = "healthy" <=> (fails = {} /\ warns = {})
       /\ o.total_issues = Cardinality(fails) + Cardinality(warns)

C27_Witness ==
  /\ call.pc = "overall_health"
  /\ call.status = "INDETERMINATE"
  /\ call.error_message = None
  /\ call.health.has_dnskey
  /\ call.overall.dnssec_status = "warn"
  /\ call.overall.domain_status = "warning"
  /\ call.overall.total_issues = 1

\* C26 (as stated): every command a validate_dnssec call runs invokes the
\* tool whose is_available() probe create() checked for the adapter (dog for
\* a DogAdapter, dig for a DigAdapter).
InValidate == call.pc \notin {"dnssec_health", "overall_health"}

C26_OnlyProbedToolRuns ==
  InValidate =>
    \A i \in DOMAIN call.queries :
      executable(call.adapter, call.queries[i][1]) = call.adapter

\* C28 (as stated): days_until_expiry is never negative: it is 0 once the
\* signature has expired and otherwise the whole number of days remaining,
\* also when the clock passes signature_expiration between the two reads.
C28_DaysNeverNegative ==
  call.pc = "days" =>
    /\ call.result >= 0
    /\ call.now2 > call.sig.signature_expiration => call.result = 0

\* Without a tick of the clock between the two reads the property is as
\* described.
C28_DaysWithOneClockValue ==
  (call.pc = "days" /\ call.now1 = call.now2) =>
    /\ call.result >= 0
    /\ call.now1 > call.sig.signature_expiration => call.result = 0
    /\ call.now1 <= call.sig.signature_expiration =>
         /\ call.result * 24 <= call.sig.signature_expiration - call.now1
         /\ (call.result + 1) * 24 > call.sig.signature_expiration - call.now1

\* C29: all StateManager() handles are one manager; reading state or calling
\* an update raises RuntimeError exactly when initialize has not been called
\* since the construction or the last clear, and the failed call leaves the
\* manager uninitialised; after initialize(d) every data field is empty;
\* update_X changes only X and X_last_updated (update_health_data only the
\* six health fields), never the domain or another field.
AppStateFields == DOMAIN AppState(<<>>)

HealthFields ==
  {"http_health", "cert_health", "dns_health", "registry_health", "dnssec_health",
   "email_health"}

Written(name) ==
  IF name = "update_dns" THEN {"dns_responses", "dns_last_updated"}
  ELSE IF name = "update_dnssec" THEN {"dnssec_validation", "dnssec_last_updated"}
  ELSE IF name = "update_tls" THEN {"tls_info", "tls_last_updated"}
  ELSE IF name = "update_http" THEN {"http_response", "http_last_updated"}
  ELSE IF name = "update_registration" THEN {"registration", "registration_last_updated"}
  ELSE IF name = "update_email" THEN {"email_config", "email_last_updated"}
  ELSE IF name = "update_health_data" THEN HealthFields
  ELSE {}

Updates ==
  {"update_dns", "update_dnssec", "update_tls", "update_http", "update_registration",
   "update_email", "update_health_data"}

OneManager ==
  \A h1, h2 \in Handles :
    (world.handles[h1] # 0 /\ world.handles[h2] # 0) => world.handles[h1] = world.handles[h2]

C29_Step ==
  LET name == call'.pc
      before == Manager(world, call'.handle)
      after == Manager(world', call'.handle)
  IN /\ OneManager'
     /\ name \in Updates \cup {"state"} =>
          /\ call'.exc = "RuntimeError" <=> ~call.initialized
          /\ call'.exc = "RuntimeError" => (after = before /\ after._state = None)
          /\ call'.exc = "None" =>
               /\ after._state # None
               /\ \A f \in AppStateFields \ Written(name) :
                    after._state[1][f] = before._state[1][f]
     /\ name = "initialize" =>
          /\ after._state # None
          /\ after._state[1].dns_responses = {}
          /\ \A f \in AppStateFields \ {"domain", "dns_responses"} : after._state[1][f] = None

C29_StateManagerFrame == [][C29_Step]_vars

C29_Witness ==
  /\ call.pc = "update_dnssec" /\ call.exc = "None" /\ call.handle = 2
  /\ world.handles[1] # 0
  /\ Manager(world, 1)._state # None
  /\ Manager(world, 1)._state[1].dnssec_validation = Some("d2")
  /\ Manager(world, 1)._state[1].dns_last_updated = Some(0)
  /\ Manager(world, 1)._state[1].dnssec_last_updated = Some(1)

\* C30: validate_dnssec always terminates: once called, and each query
\* returning or timing out, it returns, after one DNSKEY lookup for the
\* target and one per walked level (the root and each parent zone) and at
\* most as many DS lookups; the scanner finishes on every output, its line
\* index growing in every iteration of the outer and of the inner loop.
Scanning == call.pc \in {"scan_outer", "scan_inner"}

OfType(queries, t) == {k \in DOMAIN queries : queries[k][1] = t}

LookupsBounded ==
  (call.pc \in {"done", "raised"} /\ call.parts # <<>>) =>
    /\ Cardinality(OfType(call.queries, "DNSKEY")) = 1 + Len(call.parts)
    /\ Cardinality(OfType(call.queries, "DS")) <= 1 + Len(call.parts)
    /\ Len(call.queries) <= 3 + 2 * Len(call.parts)

ScanAdvances ==
  (Scanning /\ call'.pc \in {"scan_outer", "scan_inner"}) =>
    (call'.i > call.i /\ call'.lines = call.lines)

Running == call.pc \notin {"idle", "done", "raised", "scanned"}

Ended ==
  \/ call.pc \in {"done", "raised"}
  \/ call.pc = "scanned" /\ call.result = parse_dnskey_output(call.lines)

C30_AlwaysTerminates ==
  /\ Running ~> Ended
  /\ [][ScanAdvances]_vars
  /\ [](Scanning => call.i <= Len(call.lines) + 2)
  /\ []LookupsBounded

C30_Witness ==
  /\ HasChain
  /\ Len(call.parts) = 2
  /\ Len(call.queries) = 7

====
